---- MODULE Spec2Model ----
(***************************************************************************)
(* Model of the Backlog.md browser server (src/server/index.ts): the       *)
(* identifier resolvers (findTaskByLooseId, resolveMilestoneInput), the    *)
(* request handlers, the server's use of the content store and             *)
(* switchProject; and of the web components that filter and order tasks    *)
(* (src/web/components/MilestonesPage.tsx, Navigation.tsx).                *)
(*                                                                         *)
(* Strings are sequences of one-character strings so that trim,            *)
(* toLowerCase, the regular expressions and parseInt/String conversions    *)
(* are computed rather than assumed.                                       *)
(***************************************************************************)
EXTENDS Integers, Sequences, FiniteSets, TLC

(***************************************************************************)
(* Bounds of the model                                                     *)
(***************************************************************************)
MaxActive == 2

MaxArchived == 2

\* the most milestones, active and archived together
MaxMilestones == 3

MaxTasks == 3

MaxOrdered == 2

MaxStores == 2

MaxReqs == 1

MaxSockets == 2

MaxBurst == 3

MaxRev == 2

\* the most status, priority and labels parameters of a search request
MaxStatusParams == 2

MaxPriorityParams == 2

MaxLabelsParams == 2

\* the most label parameters of a search request
MaxLabelParams == 1

\* the most tasks of the milestones page
MaxPageTasks == 3

\* the most tasks of the task list
MaxListTasks == 3

\* the most events one store subscription receives
MaxEvents == 3

(***************************************************************************)
(* String helpers (JavaScript String / RegExp / Number built-ins)          *)
(***************************************************************************)
DigitChars == <<"0", "1", "2", "3", "4", "5", "6", "7", "8", "9">>

IsDigitChar(c) == \E i \in 1..Len(DigitChars) : DigitChars[i] = c

DigitVal(c) == (CHOOSE i \in 1..Len(DigitChars) : DigitChars[i] = c) - 1

UpperChars == <<"A", "B", "H", "J", "K", "M", "R", "S", "T">>

LowerChars == <<"a", "b", "h", "j", "k", "m", "r", "s", "t">>

IsLetterChar(c) ==
    \E i \in 1..Len(UpperChars) : UpperChars[i] = c \/ LowerChars[i] = c

LowerChar(c) ==
    IF \E i \in 1..Len(UpperChars) : UpperChars[i] = c
    THEN LowerChars[CHOOSE i \in 1..Len(UpperChars) : UpperChars[i] = c]
    ELSE c

\* String.prototype.toLowerCase
ToLowerCase(s) == [i \in 1..Len(s) |-> LowerChar(s[i])]

RECURSIVE TrimStart(_)
TrimStart(s) ==
    IF Len(s) > 0 /\ s[1] = " " THEN TrimStart(Tail(s)) ELSE s

RECURSIVE TrimEnd(_)
TrimEnd(s) ==
    IF Len(s) > 0 /\ s[Len(s)] = " " THEN TrimEnd(SubSeq(s, 1, Len(s) - 1)) ELSE s

\* String.prototype.trim
Trim(s) == TrimEnd(TrimStart(s))

\* /^\d+$/.test(s)
IsDigits(s) == Len(s) > 0 /\ \A i \in 1..Len(s) : IsDigitChar(s[i])

\* /^m-\d+$/i.test(s)
IsMDashDigits(s) ==
    /\ Len(s) >= 3
    /\ LowerChar(s[1]) = "m"
    /\ s[2] = "-"
    /\ IsDigits(SubSeq(s, 3, Len(s)))

\* Number.parseInt(s, 10) of a string of decimal digits
RECURSIVE ParseInt(_)
ParseInt(s) ==
    IF Len(s) = 0 THEN 0
    ELSE 10 * ParseInt(SubSeq(s, 1, Len(s) - 1)) + DigitVal(s[Len(s)])

\* String(n) of a non-negative integer
RECURSIVE NumToString(_)
NumToString(n) ==
    IF n < 10 THEN <<DigitChars[n + 1]>>
    ELSE NumToString(n \div 10) \o <<DigitChars[(n % 10) + 1]>>

\* Array.prototype.find as an index: the least index of the matching ones, 0 if none
FirstIndex(S) == IF S = {} THEN 0 ELSE CHOOSE i \in S : \A j \in S : i <= j

(***************************************************************************)
(* Task id helpers: stripPrefix, ensurePrefix, parseTaskIdSegments,        *)
(* findTaskByLooseId                                                       *)
(***************************************************************************)
DEFAULT_PREFIX == <<"t", "a", "s", "k", "-">>

\* length of the match of PREFIX_PATTERN = /^[a-zA-Z]+-/i at the start of id, 0 if none
RECURSIVE LettersAtStart(_)
LettersAtStart(id) ==
    IF Len(id) > 0 /\ IsLetterChar(id[1]) THEN 1 + LettersAtStart(Tail(id)) ELSE 0

PrefixLength(id) ==
    LET n == LettersAtStart(id)
    IN  IF n >= 1 /\ Len(id) > n /\ id[n + 1] = "-" THEN n + 1 ELSE 0

\* id.replace(PREFIX_PATTERN, "")
stripPrefix(id) == SubSeq(id, PrefixLength(id) + 1, Len(id))

ensurePrefix(id) == IF PrefixLength(id) > 0 THEN id ELSE DEFAULT_PREFIX \o id

\* /^[0-9]+(?:\.[0-9]+)*$/.test(s)
IsDottedDigits(s) ==
    /\ Len(s) > 0
    /\ \A i \in 1..Len(s) : IsDigitChar(s[i]) \/ s[i] = "."
    /\ s[1] # "." /\ s[Len(s)] # "."
    /\ \A i \in 1..(Len(s) - 1) : ~(s[i] = "." /\ s[i + 1] = ".")

\* s.split(".").map((segment) => Number.parseInt(segment, 10))
RECURSIVE SplitSegments(_)
SplitSegments(s) ==
    IF \E i \in 1..Len(s) : s[i] = "."
    THEN LET d == CHOOSE i \in 1..Len(s) : s[i] = "." /\ \A j \in 1..(i - 1) : s[j] # "."
         IN  <<ParseInt(SubSeq(s, 1, d - 1))>> \o SplitSegments(SubSeq(s, d + 1, Len(s)))
    ELSE <<ParseInt(s)>>

\* parseTaskIdSegments comparing the id without stripping its prefix
parseTaskIdSegments_noStrip(value) ==
    IF IsDottedDigits(value) THEN SplitSegments(value) ELSE <<>>

\* the numeric segments of an id, <<>> for null
parseTaskIdSegments(value) ==
    IF IsDottedDigits(stripPrefix(value)) THEN SplitSegments(stripPrefix(value)) ELSE <<>>

\* a lookup that goes by the numeric segments alone
findTaskByLooseId_segmentsFirst(tasks, inputId) ==
    LET inputSegments == parseTaskIdSegments(inputId)
    IN  IF inputSegments = <<>> THEN 0
        ELSE FirstIndex({i \in 1..Len(tasks) :
                /\ parseTaskIdSegments(tasks[i].id) # <<>>
                /\ parseTaskIdSegments(tasks[i].id) = inputSegments})

\* a lookup that compares the number of segments but not the segments
findTaskByLooseId_lengthOnly(tasks, inputId) ==
    LET lowerInputId == ToLowerCase(inputId)
        exact == FirstIndex({i \in 1..Len(tasks) : ToLowerCase(tasks[i].id) = lowerInputId})
        inputSegments == parseTaskIdSegments(inputId)
    IN  IF exact # 0 THEN exact
        ELSE IF inputSegments = <<>> THEN 0
        ELSE FirstIndex({i \in 1..Len(tasks) :
                /\ parseTaskIdSegments(tasks[i].id) # <<>>
                /\ Len(parseTaskIdSegments(tasks[i].id)) = Len(inputSegments)})

\* index in tasks of the task found, 0 for undefined
findTaskByLooseId(tasks, inputId) ==
    LET lowerInputId == ToLowerCase(inputId)
        exact == FirstIndex({i \in 1..Len(tasks) : ToLowerCase(tasks[i].id) = lowerInputId})
        inputSegments == parseTaskIdSegments(inputId)
    IN  IF exact # 0 THEN exact
        ELSE IF inputSegments = <<>> THEN 0
        ELSE FirstIndex({i \in 1..Len(tasks) :
                /\ parseTaskIdSegments(tasks[i].id) # <<>>
                /\ parseTaskIdSegments(tasks[i].id) = inputSegments})

(***************************************************************************)
(* BacklogServer.resolveMilestoneInput                                     *)
(***************************************************************************)
\* const looksLikeMilestoneId = /^\d+$/.test(normalized) || /^m-\d+$/i.test(normalized)
looksLikeMilestoneId(normalized) == IsDigits(normalized) \/ IsMDashDigits(normalized)

\* `m-${String(Number.parseInt(normalized.replace(/^m-/i, ""), 10))}`, <<>> for null
canonicalInputId(normalized) ==
    IF IsDigits(normalized)
    THEN <<"m", "-">> \o NumToString(ParseInt(normalized))
    ELSE IF IsMDashDigits(normalized)
    THEN <<"m", "-">> \o NumToString(ParseInt(SubSeq(normalized, 3, Len(normalized))))
    ELSE <<>>

\* the numeric and m-<n> forms shared by the input and the stored ids
NumericAliases(value) ==
    IF IsDigits(value)
    THEN {NumToString(ParseInt(value)), <<"m", "-">> \o NumToString(ParseInt(value))}
    ELSE IF IsMDashDigits(value)
    THEN {NumToString(ParseInt(SubSeq(value, 3, Len(value)))),
          <<"m", "-">> \o NumToString(ParseInt(SubSeq(value, 3, Len(value))))}
    ELSE {}

\* const aliasKeys = new Set([key]) plus the numeric forms
aliasKeys(normalized) == {ToLowerCase(normalized)} \cup NumericAliases(normalized)

idMatchesAlias(milestoneId, keys) ==
    \/ ToLowerCase(Trim(milestoneId)) \in keys
    \/ NumericAliases(Trim(milestoneId)) \cap keys # {}

\* index of the id match in milestones, 0 for undefined
findIdMatch(milestones, normalized) ==
    LET key == ToLowerCase(normalized)
        canon == canonicalInputId(normalized)
        rawExactMatch ==
            FirstIndex({i \in 1..Len(milestones) : ToLowerCase(Trim(milestones[i].id)) = key})
        canonicalRawMatch ==
            FirstIndex({i \in 1..Len(milestones) : ToLowerCase(Trim(milestones[i].id)) = canon})
        aliasMatch ==
            FirstIndex({i \in 1..Len(milestones) :
                idMatchesAlias(milestones[i].id, aliasKeys(normalized))})
    IN  IF rawExactMatch # 0 THEN rawExactMatch
        ELSE IF canon # <<>> /\ canonicalRawMatch # 0 THEN canonicalRawMatch
        ELSE aliasMatch

\* milestones.filter((item) => item.title.trim().toLowerCase() === key), as indices
titleMatches(milestones, normalized) ==
    {i \in 1..Len(milestones) : ToLowerCase(Trim(milestones[i].title)) = ToLowerCase(normalized)}

\* findUniqueTitleMatch answering with the first of several title matches
findUniqueTitleMatch_first(milestones, normalized) ==
    FirstIndex(titleMatches(milestones, normalized))

\* index of the unique title match, 0 for null
findUniqueTitleMatch(milestones, normalized) ==
    IF Cardinality(titleMatches(milestones, normalized)) = 1
    THEN CHOOSE i \in titleMatches(milestones, normalized) : TRUE
    ELSE 0

\* matchByAlias preferring the id match whatever the input
matchByAlias_idFirst(milestones, normalized) ==
    LET idMatch == findIdMatch(milestones, normalized)
        titleMatch == findUniqueTitleMatch(milestones, normalized)
    IN  IF idMatch # 0 THEN idMatch ELSE titleMatch

\* index of the milestone matchByAlias answers with, 0 for null
matchByAlias(milestones, normalized) ==
    LET idMatch == findIdMatch(milestones, normalized)
        titleMatch == findUniqueTitleMatch(milestones, normalized)
    IN  IF looksLikeMilestoneId(normalized) THEN idMatch
        ELSE IF titleMatch # 0 THEN titleMatch
        ELSE idMatch

\* a resolver that looks through the archived milestones first
resolveMilestoneInput_archivedFirst(milestone, activeMilestones, archivedMilestones) ==
    LET normalized == Trim(milestone)
        activeTitleMatches == titleMatches(activeMilestones, normalized)
        activeIdMatch == findIdMatch(activeMilestones, normalized)
        archivedIdMatch == findIdMatch(archivedMilestones, normalized)
        archivedTitleMatch == findUniqueTitleMatch(archivedMilestones, normalized)
        activeMatch == matchByAlias(activeMilestones, normalized)
        archivedMatch == matchByAlias(archivedMilestones, normalized)
    IN  IF normalized = <<>> THEN normalized
        ELSE IF looksLikeMilestoneId(normalized)
        THEN IF archivedIdMatch # 0 THEN archivedMilestones[archivedIdMatch].id
             ELSE IF activeIdMatch # 0 THEN activeMilestones[activeIdMatch].id
             ELSE IF Cardinality(activeTitleMatches) = 1
             THEN activeMilestones[FirstIndex(activeTitleMatches)].id
             ELSE IF Cardinality(activeTitleMatches) > 1 THEN normalized
             ELSE IF archivedTitleMatch # 0 THEN archivedMilestones[archivedTitleMatch].id
             ELSE normalized
        ELSE IF archivedMatch # 0 THEN archivedMilestones[archivedMatch].id
        ELSE IF activeMatch # 0 THEN activeMilestones[activeMatch].id
        ELSE normalized

\* a resolver that answers the input as written when nothing matches
resolveMilestoneInput_untrimmed(milestone, activeMilestones, archivedMilestones) ==
    LET normalized == Trim(milestone)
        activeMatch == matchByAlias(activeMilestones, normalized)
        archivedMatch == matchByAlias(archivedMilestones, normalized)
        activeTitle == findUniqueTitleMatch(activeMilestones, normalized)
        archivedTitle == findUniqueTitleMatch(archivedMilestones, normalized)
    IN  IF activeMatch # 0 THEN activeMilestones[activeMatch].id
        ELSE IF archivedMatch # 0 THEN archivedMilestones[archivedMatch].id
        ELSE IF activeTitle # 0 THEN activeMilestones[activeTitle].id
        ELSE IF archivedTitle # 0 THEN archivedMilestones[archivedTitle].id
        ELSE milestone

resolveMilestoneInput(milestone, activeMilestones, archivedMilestones) ==
    LET normalized == Trim(milestone)
        activeTitleMatches == titleMatches(activeMilestones, normalized)
        hasAmbiguousActiveTitle == Cardinality(activeTitleMatches) > 1
        activeIdMatch == findIdMatch(activeMilestones, normalized)
        archivedIdMatch == findIdMatch(archivedMilestones, normalized)
        archivedTitleMatch == findUniqueTitleMatch(archivedMilestones, normalized)
        activeMatch == matchByAlias(activeMilestones, normalized)
        archivedMatch == matchByAlias(archivedMilestones, normalized)
    IN  IF normalized = <<>> THEN normalized
        ELSE IF looksLikeMilestoneId(normalized)
        THEN IF activeIdMatch # 0 THEN activeMilestones[activeIdMatch].id
             ELSE IF archivedIdMatch # 0 THEN archivedMilestones[archivedIdMatch].id
             ELSE IF Cardinality(activeTitleMatches) = 1
             THEN activeMilestones[FirstIndex(activeTitleMatches)].id
             ELSE IF hasAmbiguousActiveTitle THEN normalized
             ELSE IF archivedTitleMatch # 0 THEN archivedMilestones[archivedTitleMatch].id
             ELSE normalized
        ELSE IF activeMatch # 0 THEN activeMilestones[activeMatch].id
        ELSE IF hasAmbiguousActiveTitle THEN normalized
        ELSE IF archivedMatch # 0 THEN archivedMilestones[archivedMatch].id
        ELSE normalized

(***************************************************************************)
(* BacklogServer.handleReorderTask and Core.reorderTask                    *)
(* An error message is the set of the phrases the handler probes for       *)
(* (message.includes) that it contains.                                    *)
(***************************************************************************)
\* a field of the body that is absent or not of the expected type
NotAString == "<not a string>"

NotAnArray == <<"<not an array>">>

\* a body that req.json() cannot parse
MalformedBody ==
    [json |-> FALSE, taskId |-> NotAString, targetStatus |-> NotAString,
     orderedTaskIds |-> NotAnArray, targetMilestone |-> "undefined"]

NoTask == [id |-> "", status |-> "", branch |-> "", ordinal |-> 0]

\* the task of the store with this id, NoTask if there is none
TaskNamed(tasks, taskId) ==
    IF \E i \in 1..Len(tasks) : tasks[i].id = taskId
    THEN tasks[CHOOSE i \in 1..Len(tasks) : tasks[i].id = taskId]
    ELSE NoTask

\* position of taskId in orderedTaskIds, 0 if absent
PositionIn(orderedTaskIds, taskId) ==
    FirstIndex({i \in 1..Len(orderedTaskIds) : orderedTaskIds[i] = taskId})

\* Core.reorderTask: a cross-branch task is refused with a validation error,
\* an unknown task is not found, otherwise the task is moved and every listed
\* native task gets its sequence key; ioFails is the entity loader failing
reorderTask(tasks, taskId, targetStatus, orderedTaskIds, ioFails) ==
    IF TaskNamed(tasks, taskId) = NoTask
    THEN [threw |-> TRUE, message |-> {"not found"}, tasks |-> tasks]
    ELSE IF TaskNamed(tasks, taskId).branch # ""
    THEN [threw |-> TRUE, message |-> {"exists in branch"}, tasks |-> tasks]
    ELSE IF ioFails
    THEN [threw |-> TRUE, message |-> {}, tasks |-> tasks]
    ELSE [threw |-> FALSE, message |-> {},
          tasks |-> [i \in 1..Len(tasks) |->
              IF tasks[i].branch # "" THEN tasks[i]
              ELSE [tasks[i] EXCEPT
                      !.status = IF tasks[i].id = taskId THEN targetStatus ELSE @,
                      !.ordinal = IF PositionIn(orderedTaskIds, tasks[i].id) # 0
                                  THEN PositionIn(orderedTaskIds, tasks[i].id) ELSE @]]]

\* the status of the catch block when only validation phrases count as client errors
reorderErrorStatus_validationOnly(message) ==
    IF "not found" \in message \/ "Missing required" \in message THEN 400 ELSE 500

\* const status = isCrossBranchError || isValidationError ? 400 : 500
reorderErrorStatus(message) ==
    IF "exists in branch" \in message \/ "not found" \in message \/ "Missing required" \in message
    THEN 400 ELSE 500

\* the response of the handler and the tasks it leaves; a body that is not
\* JSON makes req.json() throw a SyntaxError
handleReorderTask(tasks, body, ioFails) ==
    IF ~body.json
    THEN [status |-> reorderErrorStatus({}), success |-> FALSE, tasks |-> tasks]
    ELSE LET taskId == IF body.taskId = NotAString THEN "" ELSE body.taskId
             targetStatus == IF body.targetStatus = NotAString THEN "" ELSE body.targetStatus
             orderedTaskIds == IF body.orderedTaskIds = NotAnArray THEN <<>> ELSE body.orderedTaskIds
             outcome == reorderTask(tasks, taskId, targetStatus, orderedTaskIds, ioFails)
         IN  IF taskId = "" \/ targetStatus = "" \/ Len(orderedTaskIds) = 0
             THEN [status |-> 400, success |-> FALSE, tasks |-> tasks]
             ELSE IF outcome.threw
             THEN [status |-> reorderErrorStatus(outcome.message), success |-> FALSE, tasks |-> tasks]
             ELSE [status |-> 200, success |-> TRUE, tasks |-> outcome.tasks]

(***************************************************************************)
(* ContentStore (core/content-store.ts): cache, subscribers, coalesced     *)
(* change events                                                           *)
(***************************************************************************)
\* the kinds of change event, in the order a flush emits them
Kinds == <<"task", "document", "decision">>

TaskKeys == {"task-7"}

NoEntry == [rev |-> 0, live |-> FALSE]

EmptyCache == [k \in TaskKeys |-> NoEntry]

AbsentStore ==
    [state |-> "absent", subscribers |-> <<>>, pending |-> {}, burst |-> 0,
     readyEmitted |-> 0, cache |-> EmptyCache, written |-> [k \in TaskKeys |-> 0]]

\* new ContentStore(...)
NewStore == [AbsentStore EXCEPT !.state = "uninitialized"]

\* ensureInitialized hydrating again although the store is ready
ensureInitialized_rehydrate(store) ==
    IF store.state \in {"uninitialized", "ready"} THEN [store EXCEPT !.state = "hydrating"] ELSE store

\* ContentStore.ensureInitialized: starts the hydration once, a no-op afterwards
ensureInitialized(store) ==
    IF store.state = "uninitialized" THEN [store EXCEPT !.state = "hydrating"] ELSE store

\* the hydration has loaded every entity: the store is ready
hydrated(store, files) ==
    [store EXCEPT !.state = "ready", !.cache = files, !.readyEmitted = @ + 1]

\* getTasks(): the snapshot of the cache
getTasks(store) == {k \in TaskKeys : store.cache[k].live}

\* subscribe(handler)
subscribe(store, handler) == [store EXCEPT !.subscribers = Append(@, handler)]

\* the unsubscribe function subscribe returned
unsubscribe(store, handler) ==
    LET Other(h) == h # handler
    IN  [store EXCEPT !.subscribers = SelectSeq(@, Other)]

\* upsertTask leaving the cache alone until the next flush
upsertTask_deferred(store, key, entry) ==
    IF store.state = "ready"
    THEN [store EXCEPT !.written[key] = entry.rev, !.pending = @ \cup {"task"},
                       !.burst = @ + 1]
    ELSE [store EXCEPT !.written[key] = entry.rev]

\* upsertTask(task): insert or replace by id; a change of kind "task" becomes
\* pending unless the store is still hydrating
upsertTask(store, key, entry) ==
    IF store.state = "ready"
    THEN [store EXCEPT !.cache[key] = entry, !.written[key] = entry.rev,
                       !.pending = @ \cup {"task"}, !.burst = @ + 1]
    ELSE [store EXCEPT !.cache[key] = entry, !.written[key] = entry.rev]

\* a watch event: entities of the kind are read again, the change becomes pending
reloaded(store, kind, files) ==
    [store EXCEPT !.cache = IF kind = "task" THEN files ELSE @,
                  !.pending = @ \cup {kind}]

\* a flush emitting one "task" event for every upsert of the burst
flushEvents_perUpsert(pending, burst) ==
    LET Pending(kind) == kind \in pending /\ kind # "task"
    IN  [i \in 1..burst |-> "task"] \o SelectSeq(Kinds, Pending)

\* the events one flush emits: one per pending kind, however many changes
flushEvents(pending, burst) ==
    LET Pending(kind) == kind \in pending
    IN  SelectSeq(Kinds, Pending)

flushed(store) == [store EXCEPT !.pending = {}, !.burst = 0]

\* dispose(): stops the watches and clears the subscriber list; idempotent
dispose(store) ==
    IF store.state = "absent" THEN store
    ELSE [store EXCEPT !.state = "disposed", !.subscribers = <<>>, !.pending = {},
                       !.burst = 0]

\* the handlers one event invokes: all of them, in registration order, each
\* isolated from the others' exceptions
notify(subscribers, throwers) == subscribers

(***************************************************************************)
(* BacklogServer: the store subscription and the broadcasts                *)
(***************************************************************************)
\* a callback in which only a "ready" event sets storeReadyBroadcasted
onStoreEvent_readySetsOnly(type, storeReadyBroadcasted) ==
    IF type = "ready"
    THEN IF ~storeReadyBroadcasted
         THEN [flag |-> TRUE, broadcast |-> FALSE]
         ELSE [flag |-> storeReadyBroadcasted, broadcast |-> TRUE]
    ELSE [flag |-> storeReadyBroadcasted, broadcast |-> TRUE]

\* the callback ensureServicesReady subscribes: the new storeReadyBroadcasted
\* and whether tasks-updated is broadcast
onStoreEvent(type, storeReadyBroadcasted) ==
    IF type = "ready"
    THEN IF ~storeReadyBroadcasted
         THEN [flag |-> TRUE, broadcast |-> FALSE]
         ELSE [flag |-> storeReadyBroadcasted, broadcast |-> TRUE]
    ELSE [flag |-> TRUE, broadcast |-> TRUE]

\* the callback applied to the events of one fan-out, in order
RECURSIVE onStoreEvents(_, _)
onStoreEvents(events, storeReadyBroadcasted) ==
    IF events = <<>> THEN [flag |-> storeReadyBroadcasted, broadcasts |-> 0]
    ELSE LET first == onStoreEvent(Head(events), storeReadyBroadcasted)
             rest == onStoreEvents(Tail(events), first.flag)
         IN  [flag |-> rest.flag,
              broadcasts |-> rest.broadcasts + IF first.broadcast THEN 1 ELSE 0]

\* the loop with one try around it: the first failing send ends the broadcast
broadcastTasksUpdated_sharedTry(socks, failing) ==
    LET firstFail == FirstIndex({i \in 1..Len(socks) : socks[i] \in failing})
    IN  IF firstFail = 0
        THEN [attempted |-> socks, delivered |-> socks]
        ELSE [attempted |-> SubSeq(socks, 1, firstFail),
              delivered |-> SubSeq(socks, 1, firstFail - 1)]

\* for (const ws of this.sockets) { try { ws.send("tasks-updated") } catch {} }
broadcastTasksUpdated(socks, failing) ==
    LET Sends(ws) == ws \notin failing
    IN  [attempted |-> socks, delivered |-> SelectSeq(socks, Sends)]

(***************************************************************************)
(* BacklogServer.handleSearch and SearchService.search                     *)
(* A filter dimension is absent, a single value or a list of values.       *)
(***************************************************************************)
\* String.prototype.split(sep)
RECURSIVE Split(_, _)
Split(s, sep) ==
    LET i == FirstIndex({k \in 1..Len(s) : s[k] = sep})
    IN  IF i = 0 THEN <<s>>
        ELSE <<SubSeq(s, 1, i - 1)>> \o Split(SubSeq(s, i + 1, Len(s)), sep)

RECURSIVE DigitPrefix(_)
DigitPrefix(s) ==
    IF Len(s) > 0 /\ IsDigitChar(s[1]) THEN <<s[1]>> \o DigitPrefix(Tail(s)) ELSE <<>>

\* Number.parseInt(s, 10) of any string: leading blanks, a sign, the digits
\* up to the first other character; NaN without digits
NumberParseInt(s) ==
    LET t == TrimStart(s)
        signed == Len(t) > 0 /\ t[1] \in {"-", "+"}
        digits == DigitPrefix(IF signed THEN Tail(t) ELSE t)
    IN  IF digits = <<>> THEN [nan |-> TRUE, value |-> 0]
        ELSE [nan |-> FALSE,
              value |-> IF signed /\ t[1] = "-" THEN 0 - ParseInt(digits) ELSE ParseInt(digits)]

allowedTypes ==
    {<<"t", "a", "s", "k">>, <<"d", "o", "c", "u", "m", "e", "n", "t">>,
     <<"d", "e", "c", "i", "s", "i", "o", "n">>}

allowedPriorities ==
    {<<"h", "i", "g", "h">>, <<"m", "e", "d", "i", "u", "m">>, <<"l", "o", "w">>}

AbsentFilter == [shape |-> "absent", values |-> <<>>]

\* values.length === 1 ? values[0] : values
singleOrList(values) ==
    [shape |-> IF Len(values) = 1 THEN "single" ELSE "list", values |-> values]

\* filters.status
statusFilter(statusParams) ==
    IF Len(statusParams) = 1 THEN [shape |-> "single", values |-> statusParams]
    ELSE IF Len(statusParams) > 1 THEN [shape |-> "list", values |-> statusParams]
    ELSE AbsentFilter

\* the label and labels parameters, then the first labels parameter split at commas
labelParamsRaw(label, labels) ==
    label \o labels \o (IF Len(labels) > 0 /\ labels[1] # <<>> THEN Split(labels[1], ",") ELSE <<>>)

\* filters.labels: the raw values trimmed, the empty ones left out
labelsFilter(raw) ==
    LET NotEmpty(value) == Len(value) > 0
        normalizedLabels == SelectSeq([i \in 1..Len(raw) |-> Trim(raw[i])], NotEmpty)
    IN  IF Len(normalizedLabels) > 0 THEN singleOrList(normalizedLabels) ELSE AbsentFilter

\* whether a task passes one filter dimension: absent, or one of the values is
\* among the task's
passes(filter, taskValues) ==
    filter.shape = "absent" \/ \E i \in 1..Len(filter.values) : filter.values[i] \in taskValues

\* SearchService.search without a query: the tasks passing every dimension,
\* by descending id, cut to the limit
search(tasks, limit, types, filters) ==
    LET Matches(task) ==
            /\ passes(filters.status, {task.status})
            /\ passes(filters.priority, {task.priority})
            /\ passes(filters.labels, task.labels)
        hits == IF types.given /\ <<"t", "a", "s", "k">> \notin types.values
                THEN <<>> ELSE SelectSeq(tasks, Matches)
        ids == [i \in 1..Len(hits) |-> hits[i].id]
    IN  IF limit.given /\ limit.value < Len(ids) THEN SubSeq(ids, 1, limit.value) ELSE ids

NoFilters == [status |-> AbsentFilter, priority |-> AbsentFilter, labels |-> AbsentFilter]

NoSearchResponse ==
    [status |-> 0, searched |-> FALSE, filters |-> NoFilters, results |-> <<>>]

\* handleSearch(req): request [limit, type, status, priority, label, labels],
\* limit being [given, value]
handleSearch(tasks, req, searchFails) ==
    LET parsed == NumberParseInt(req.limit.value)
        limitGiven == req.limit.given /\ req.limit.value # <<>>
        InAllowed(value) == value \in allowedTypes
        normalizedTypes == SelectSeq([i \in 1..Len(req.type) |-> ToLowerCase(req.type[i])], InAllowed)
        normalizedPriorities == [i \in 1..Len(req.priority) |-> ToLowerCase(req.priority[i])]
        filters == [status |-> statusFilter(req.status),
                    priority |-> IF Len(req.priority) > 0 THEN singleOrList(normalizedPriorities)
                                 ELSE AbsentFilter,
                    labels |-> labelsFilter(labelParamsRaw(req.label, req.labels))]
        invalidPriority == FirstIndex({i \in 1..Len(normalizedPriorities) :
                                          normalizedPriorities[i] \notin allowedPriorities})
        bad == [NoSearchResponse EXCEPT !.status = 400]
    IN  IF searchFails THEN [NoSearchResponse EXCEPT !.status = 500]
        ELSE IF limitGiven /\ (parsed.nan \/ parsed.value <= 0) THEN bad
        ELSE IF Len(req.type) > 0 /\ Len(normalizedTypes) = 0 THEN bad
        ELSE IF invalidPriority # 0 /\ normalizedPriorities[invalidPriority] # <<>> THEN bad
        ELSE [status |-> 200, searched |-> TRUE, filters |-> filters,
              results |-> search(tasks,
                                 [given |-> limitGiven, value |-> parsed.value],
                                 [given |-> Len(req.type) > 0,
                                  values |-> {normalizedTypes[i] : i \in 1..Len(normalizedTypes)}],
                                 filters)]

(***************************************************************************)
(* State                                                                   *)
(***************************************************************************)
VARIABLES
    mActive,      \* listMilestones(): sequence of [id, title]
    mArchived,    \* listArchivedMilestones(): sequence of [id, title]
    mInput,       \* the string handed to resolveMilestoneInput
    mResult,      \* the string resolveMilestoneInput returned for mInput
    mSecond,      \* the string resolveMilestoneInput returned for mResult
    mPc,          \* "idle" | "start" | "resolved" | "again"
    tTasks,       \* store.getTasks(): sequence of tasks
    tInput,       \* the loose id of the request
    tFound,       \* findTaskByLooseId(tasks, tInput), 0 for undefined
    tPrefixed,    \* findTaskByLooseId(tasks, ensurePrefix(tInput))
    tPc,          \* "idle" | "start" | "found" | "done"
    rTasks,       \* the tasks Core.reorderTask works on: [id, status, branch, ordinal]
    rBody,        \* the body of the reorder request being handled
    rResponse,    \* the response to it: [status, success]
    rPc,          \* "idle" | "received" | "answered"
    stores,       \* the ContentStore instances created so far, by number
    core,         \* this.core: [store, search, created]
    srv,          \* the BacklogServer fields
    sockets,      \* this.sockets, in insertion order
    reqs,         \* the ensureServicesReady calls in flight: [pc, store]
    startPc,      \* position of start()
    stopPc,       \* position of stop()
    disk,         \* the task files the entity loader reads: [rev, live]
    out,          \* what the step just taken called, returned and delivered
    qReq,         \* the parameters of the search request being handled
    qResponse,    \* the response to it: [status, searched, filters, results]
    qPc,          \* "idle" | "received" | "answered"
    wProps,       \* the props and state of the web component being rendered
    wView,        \* what the component computed for them
    wPc,          \* "idle" | "given" | "rendered"
    switchPc,     \* position of switchProject()
    cSeen,        \* the events the server's store subscription has received
    hWorld,       \* what the request handlers under study share: store, files, calls
    hReqs         \* the requests to them in flight: position, input, locals, response

mvars == <<mActive, mArchived, mInput, mResult, mSecond, mPc>>

tvars == <<tTasks, tInput, tFound, tPrefixed, tPc>>

rvars == <<rTasks, rBody, rResponse, rPc>>

svars == <<stores, core, srv, sockets, reqs, startPc, stopPc, disk, out>>

qvars == <<qReq, qResponse, qPc>>

wvars == <<wProps, wView, wPc>>

xvars == <<switchPc, cSeen>>

hvars == <<hWorld, hReqs>>

vars == <<mvars, tvars, rvars, svars, qvars, wvars, xvars, hvars>>

notM == <<tvars, rvars, svars, qvars, wvars, xvars, hvars>>

notT == <<mvars, rvars, svars, qvars, wvars, xvars, hvars>>

notR == <<mvars, tvars, svars, qvars, wvars, xvars, hvars>>

notS == <<mvars, tvars, rvars, qvars, wvars, xvars, hvars>>

notQ == <<mvars, tvars, rvars, svars, wvars, xvars, hvars>>

notW == <<mvars, tvars, rvars, svars, qvars, xvars, hvars>>

\* every variable but those of the server and of its subscription
notSX == <<mvars, tvars, rvars, qvars, wvars, hvars>>

notH == <<mvars, tvars, rvars, svars, qvars, wvars, xvars>>

(***************************************************************************)
(* Milestone resolution: the lists the entity loader can return and the    *)
(* inputs a request can carry                                              *)
(***************************************************************************)
\* ids found in milestone files: canonical, zero-padded and bare-number forms
MilestoneIds ==
    {<<"m", "-", "1">>, <<"m", "-", "2">>, <<"m", "-", "0", "1">>, <<"1">>, <<"r">>}

MilestoneTitles ==
    {<<"r">>, <<" ", "R">>, <<"1">>, <<"m", "-", "2">>}

MilestoneInputs ==
    {<<>>, <<" ">>, <<"r">>, <<"R", " ">>, <<"b">>, <<"1">>, <<"0", "1">>, <<"2">>,
     <<"m", "-", "1">>, <<"M", "-", "0", "1">>, <<"m", "-", "2">>}

Milestones == [id : MilestoneIds, title : MilestoneTitles]

ListsUpTo(S, n) == UNION {[1..k -> S] : k \in 0..n}

\* an entity id is unique within its kind (active and archived together)
DistinctIds(list) ==
    \A i, j \in 1..Len(list) : i # j => list[i].id # list[j].id

MilestoneIdle ==
    /\ mActive = <<>>
    /\ mArchived = <<>>
    /\ mInput = <<>>
    /\ mResult = <<>>
    /\ mSecond = <<>>
    /\ mPc = "idle"

LooseIdle ==
    /\ tTasks = <<>>
    /\ tInput = <<>>
    /\ tFound = 0
    /\ tPrefixed = 0
    /\ tPc = "idle"

NoResponse == [status |-> 0, success |-> FALSE]

ReorderIdle ==
    /\ rTasks = <<>>
    /\ rBody = MalformedBody
    /\ rResponse = NoResponse
    /\ rPc = "idle"

NoRequest ==
    [limit |-> [given |-> FALSE, value |-> <<>>], type |-> <<>>, status |-> <<>>,
     priority |-> <<>>, label |-> <<>>, labels |-> <<>>]

SearchIdle ==
    /\ qReq = NoRequest
    /\ qResponse = NoSearchResponse
    /\ qPc = "idle"

\* no web component is being rendered
WebIdle ==
    /\ wProps = <<>>
    /\ wView = <<>>
    /\ wPc = "idle"

\* no project switch is in flight and the subscription has received nothing
SwitchIdle ==
    /\ switchPc = "idle"
    /\ cSeen = 0

\* no request handler is under study
HandlerIdle ==
    /\ hWorld = <<>>
    /\ hReqs = <<>>

StoreIds == 1..MaxStores

\* request 0 is the ensureServicesReady call of start()
ReqIds == 0..MaxReqs

SocketIds == 1..MaxSockets

\* subscribers of the store other than the server
ExternalHandlers == {"h1", "h2"}

NoOut ==
    [op |-> "none", store |-> 0, events |-> <<>>, subscribers |-> <<>>, invoked |-> <<>>,
     broadcasts |-> 0, recipients |-> <<>>, attempted |-> <<>>, delivered |-> <<>>,
     failed |-> {}, upserts |-> 0,
     wasReady |-> FALSE, changed |-> FALSE, threw |-> FALSE]

\* the fields of a BacklogServer after its constructor
ServerConstructed ==
    /\ stores = [id \in StoreIds |-> AbsentStore]
    /\ core = [store |-> 0, search |-> FALSE, created |-> 0]
    /\ srv = [server |-> FALSE, contentStore |-> 0, searchService |-> FALSE,
              unsubscribeContentStore |-> 0, storeReadyBroadcasted |-> FALSE,
              configWatcher |-> FALSE, stopping |-> FALSE]
    /\ sockets = <<>>
    /\ reqs = [r \in ReqIds |-> [pc |-> "idle", store |-> 0]]
    /\ startPc = "idle"
    /\ stopPc = "idle"
    /\ out = NoOut

ServerIdle ==
    /\ ServerConstructed
    /\ disk = EmptyCache

MilestoneInit ==
    /\ LooseIdle
    /\ ReorderIdle
    /\ ServerIdle
    /\ SearchIdle
    /\ WebIdle
    /\ SwitchIdle
    /\ HandlerIdle
    /\ mActive \in ListsUpTo(Milestones, MaxActive)
    /\ mArchived \in ListsUpTo(Milestones, MaxArchived)
    /\ Len(mActive) + Len(mArchived) <= MaxMilestones
    /\ DistinctIds(mActive \o mArchived)
    /\ mInput \in MilestoneInputs
    /\ mResult = <<>>
    /\ mSecond = <<>>
    /\ mPc = "start"

\* a handler resolves the milestone of its payload
Resolve ==
    /\ mPc = "start"
    /\ mResult' = resolveMilestoneInput(mInput, mActive, mArchived)
    /\ mPc' = "resolved"
    /\ UNCHANGED <<mActive, mArchived, mInput, mSecond, notM>>

\* the stored result is submitted again (an update carrying the resolved value)
ResolveAgain ==
    /\ mPc = "resolved"
    /\ mSecond' = resolveMilestoneInput(mResult, mActive, mArchived)
    /\ mPc' = "again"
    /\ UNCHANGED <<mActive, mArchived, mInput, mResult, notM>>

MilestoneNext == Resolve \/ ResolveAgain

SpecMilestone == MilestoneInit /\ [][MilestoneNext]_vars

\* C1: resolving an already resolved milestone value gives the same value:
\* resolveMilestoneInput(resolveMilestoneInput(x)) = resolveMilestoneInput(x)
C1_Idempotent == mPc = "again" => mSecond = mResult

\* two or more active milestones carry the input as their title
AmbiguousActiveTitle ==
    Cardinality({i \in 1..Len(mActive) :
        ToLowerCase(Trim(mActive[i].title)) = ToLowerCase(Trim(mInput))}) >= 2

\* the stored id names the same milestone as the input: equal ignoring case,
\* or both number n / m-<n> forms of the same n
IdNamesInput(id, input) ==
    \/ ToLowerCase(Trim(id)) = ToLowerCase(Trim(input))
    \/ /\ IsDigits(Trim(id)) \/ IsMDashDigits(Trim(id))
       /\ IsDigits(Trim(input)) \/ IsMDashDigits(Trim(input))
       /\ NumericAliases(Trim(id)) = NumericAliases(Trim(input))

IdShapedInput == IsDigits(Trim(mInput)) \/ IsMDashDigits(Trim(mInput))

AllMilestones == mActive \o mArchived

\* C2 as stated: with an ambiguous active title the (trimmed) input comes
\* back and it is never the id of a milestone
C2_Original ==
    (mPc # "start" /\ AmbiguousActiveTitle) =>
        /\ mResult = Trim(mInput)
        /\ \A i \in 1..Len(AllMilestones) : AllMilestones[i].id # mResult

\* C2 amended: with an ambiguous active title nothing is resolved by title;
\* the trimmed input comes back unless the id of an active milestone (or, for
\* id-shaped input, of an archived one) names the input, and then the answer
\* is the id of such a milestone
C2_AmbiguousTitle ==
    (mPc # "start" /\ AmbiguousActiveTitle) =>
        IF \/ \E i \in 1..Len(mActive) : IdNamesInput(mActive[i].id, mInput)
           \/ /\ IdShapedInput
              /\ \E i \in 1..Len(mArchived) : IdNamesInput(mArchived[i].id, mInput)
        THEN \E i \in 1..Len(AllMilestones) :
                /\ IdNamesInput(AllMilestones[i].id, mInput)
                /\ mResult = AllMilestones[i].id
        ELSE mResult = Trim(mInput)

\* an ambiguous title was resolved to the trimmed input
C2_Witness ==
    /\ mPc = "resolved"
    /\ AmbiguousActiveTitle
    /\ mInput # Trim(mInput)
    /\ mResult = Trim(mInput)

\* the milestone's title is the input, trimmed and but for case
TitleIsInput(milestone) == ToLowerCase(Trim(milestone.title)) = ToLowerCase(Trim(mInput))

\* list[i] is the only milestone of the list whose title is the input, and
\* the id of another milestone of the list names the input
TitleAndIdIn(list, i) ==
    /\ TitleIsInput(list[i])
    /\ \A k \in 1..Len(list) : TitleIsInput(list[k]) => k = i
    /\ \E j \in 1..Len(list) : j # i /\ IdNamesInput(list[j].id, mInput)

\* for id-shaped input, when the id of one milestone names the input and the
\* title of another is the input, the answer is the id of a milestone whose
\* id names the input
IdShapedFavorsId ==
    (/\ mPc # "start"
     /\ IdShapedInput
     /\ \E i, j \in 1..Len(AllMilestones) :
            /\ i # j
            /\ IdNamesInput(AllMilestones[i].id, mInput)
            /\ TitleIsInput(AllMilestones[j])) =>
        \E k \in 1..Len(AllMilestones) :
            /\ IdNamesInput(AllMilestones[k].id, mInput)
            /\ mResult = AllMilestones[k].id

\* C16 as stated: id-shaped input is answered by id; any other input, when
\* in one list a unique title is the input and the id of another milestone
\* names the input, is answered with the id of the milestone of that title
C16_Original ==
    /\ IdShapedFavorsId
    /\ (mPc # "start" /\ ~IdShapedInput) =>
          /\ \A i \in 1..Len(mActive) :
                TitleAndIdIn(mActive, i) => mResult = mActive[i].id
          /\ \A i \in 1..Len(mArchived) :
                TitleAndIdIn(mArchived, i) => mResult = mArchived[i].id

\* C16 amended: id-shaped input is answered by id; any other input is
\* answered with the id of the uniquely titled milestone rather than the
\* id-matched one within the active list, and within the archived list
\* when no active milestone has the input as its title or names it by id
C16_Precedence ==
    /\ IdShapedFavorsId
    /\ (mPc # "start" /\ ~IdShapedInput) =>
          /\ \A i \in 1..Len(mActive) :
                TitleAndIdIn(mActive, i) => mResult = mActive[i].id
          /\ \A i \in 1..Len(mArchived) :
                (/\ TitleAndIdIn(mArchived, i)
                 /\ \A k \in 1..Len(mActive) :
                        /\ ~TitleIsInput(mActive[k])
                        /\ ~IdNamesInput(mActive[k].id, mInput)) =>
                    mResult = mArchived[i].id

\* the input is no id; among the archived milestones one is titled as the
\* input and an earlier one has the input as its id; the active milestone
\* does not match and the title wins
C16_Witness ==
    /\ mPc = "resolved"
    /\ ~IdShapedInput
    /\ Len(mActive) = 1
    /\ Len(mArchived) = 2
    /\ TitleAndIdIn(mArchived, 2)
    /\ ~TitleIsInput(mActive[1])
    /\ ~IdNamesInput(mActive[1].id, mInput)
    /\ mResult = mArchived[2].id
    /\ mResult # Trim(mInput)

\* the ids of the milestones of a list
IdsOf(list) == {list[i].id : i \in 1..Len(list)}

\* an active milestone's id names the input
ActiveIdMatch == \E i \in 1..Len(mActive) : IdNamesInput(mActive[i].id, mInput)

\* exactly one active milestone has the input as its title
ActiveUniqueTitle ==
    Cardinality({i \in 1..Len(mActive) : TitleIsInput(mActive[i])}) = 1

ArchivedIdMatch == \E i \in 1..Len(mArchived) : IdNamesInput(mArchived[i].id, mInput)

\* C17 as stated: when an active milestone matches the input by id or by
\* unique title the answer is the id of an active milestone, and the id of
\* an archived milestone is answered only when no active milestone matches
C17_Original ==
    (mPc # "start" /\ Trim(mInput) # <<>>) =>
        /\ (ActiveIdMatch \/ ActiveUniqueTitle) => mResult \in IdsOf(mActive)
        /\ mResult \in IdsOf(mArchived) => ~(ActiveIdMatch \/ ActiveUniqueTitle)

\* C17 amended: an active id match always wins; an active unique title wins
\* unless the input is id-shaped and the id of an archived milestone names
\* it, and then the answer is the id of such an archived milestone
C17_ActiveFirst ==
    (mPc # "start" /\ Trim(mInput) # <<>>) =>
        /\ ActiveIdMatch => mResult \in IdsOf(mActive)
        /\ (ActiveUniqueTitle /\ ~(IdShapedInput /\ ArchivedIdMatch)) =>
              mResult \in IdsOf(mActive)
        /\ (ActiveUniqueTitle /\ ~ActiveIdMatch /\ IdShapedInput /\ ArchivedIdMatch) =>
              /\ mResult \in IdsOf(mArchived)
              /\ IdNamesInput(mResult, mInput)
        /\ mResult \in IdsOf(mArchived) =>
              /\ ~ActiveIdMatch
              /\ ~ActiveUniqueTitle \/ (IdShapedInput /\ ArchivedIdMatch)

\* the ids of an active and of an archived milestone both name the input,
\* neither being the input as written, and the active one is answered
C17_Witness ==
    /\ mPc = "resolved"
    /\ ActiveIdMatch
    /\ ArchivedIdMatch
    /\ Trim(mInput) \notin IdsOf(AllMilestones)
    /\ mResult \in IdsOf(mActive)

\* C18: the answer is the stored id of an active or archived milestone, or
\* the trimmed input; when no milestone's id names the input and no
\* milestone's title is the input, it is the trimmed input.
C18_IdOrInput ==
    mPc # "start" =>
        /\ mResult \in IdsOf(AllMilestones) \/ mResult = Trim(mInput)
        /\ (\A i \in 1..Len(AllMilestones) :
                /\ ~IdNamesInput(AllMilestones[i].id, mInput)
                /\ ~TitleIsInput(AllMilestones[i])) => mResult = Trim(mInput)

\* there are milestones, none matches the input, and the input comes back
\* without the blanks around it
C18_Witness ==
    /\ mPc = "resolved"
    /\ Len(mActive) >= 1
    /\ Len(mArchived) >= 1
    /\ \A i \in 1..Len(AllMilestones) :
            /\ ~IdNamesInput(AllMilestones[i].id, mInput)
            /\ ~TitleIsInput(AllMilestones[i])
    /\ mInput # Trim(mInput)
    /\ Trim(mInput) # <<>>
    /\ mResult = Trim(mInput)

(***************************************************************************)
(* Loose task ids: the task lists of a store and the ids a request carries *)
(***************************************************************************)
TaskIds ==
    {<<"t", "a", "s", "k", "-", "1", "2">>, <<"T", "A", "S", "K", "-", "1", "2">>,
     <<"t", "a", "s", "k", "-", "0", "1", "2">>, <<"j", "-", "1", "2">>, <<"1", "2">>,
     <<"t", "a", "s", "k", "-", "1", "2", ".", "1">>, <<"t", "a", "s", "k", "-", "1">>,
     <<"t", "a", "s", "k", "-", "b">>}

LooseInputs ==
    {<<"1", "2">>, <<"0", "1", "2">>, <<"1">>, <<"1", "2", ".", "1">>, <<"2">>,
     <<"t", "a", "s", "k", "-", "1", "2">>, <<"J", "-", "1", "2">>, <<"b">>, <<"1", ".">>}

Tasks == [id : TaskIds]

LooseInit ==
    /\ MilestoneIdle
    /\ ReorderIdle
    /\ ServerIdle
    /\ SearchIdle
    /\ WebIdle
    /\ SwitchIdle
    /\ HandlerIdle
    /\ tTasks \in ListsUpTo(Tasks, MaxTasks)
    /\ DistinctIds(tTasks)
    /\ tInput \in LooseInputs
    /\ tFound = 0
    /\ tPrefixed = 0
    /\ tPc = "start"

\* a handler looks the request's id up in the snapshot
Lookup ==
    /\ tPc = "start"
    /\ tFound' = findTaskByLooseId(tTasks, tInput)
    /\ tPc' = "found"
    /\ UNCHANGED <<tTasks, tInput, tPrefixed, notT>>

\* the same id is looked up in its prefixed form
LookupPrefixed ==
    /\ tPc = "found"
    /\ tPrefixed' = findTaskByLooseId(tTasks, ensurePrefix(tInput))
    /\ tPc' = "done"
    /\ UNCHANGED <<tTasks, tInput, tFound, notT>>

LooseNext == Lookup \/ LookupPrefixed

SpecLoose == LooseInit /\ [][LooseNext]_vars

\* the tasks whose id, without its prefix, is the single number n
TasksWithSuffix(n) ==
    {i \in 1..Len(tTasks) :
        /\ IsDigits(stripPrefix(tTasks[i].id))
        /\ ParseInt(stripPrefix(tTasks[i].id)) = n}

\* C3: when exactly one task has numeric suffix n, looking up "n" and
\* "task-n" both return that task
C3_LooseEquivalence ==
    (tPc = "done" /\ IsDigits(tInput) /\ Cardinality(TasksWithSuffix(ParseInt(tInput))) = 1) =>
        /\ tFound = tPrefixed
        /\ tFound \in TasksWithSuffix(ParseInt(tInput))

\* both lookups ran and found the one task, whose id is neither "n" nor "task-n"
C3_Witness ==
    /\ tPc = "done"
    /\ IsDigits(tInput)
    /\ Cardinality(TasksWithSuffix(ParseInt(tInput))) = 1
    /\ Len(tTasks) >= 2
    /\ tFound # 0
    /\ tTasks[tFound].id # tInput
    /\ tTasks[tFound].id # ensurePrefix(tInput)

\* the tasks whose full id is the input but for case
ExactMatches == {i \in 1..Len(tTasks) : ToLowerCase(tTasks[i].id) = ToLowerCase(tInput)}

\* C14: when a task's full id equals the input but for case, the lookup
\* returns such a task, even when an earlier task of the list matches the
\* input by its numeric segments.
C14_ExactFirst ==
    (tPc \in {"found", "done"} /\ ExactMatches # {}) => tFound \in ExactMatches

\* the first task matches the input by segments only, the second is the
\* input but for case, and the second is returned
C14_Witness ==
    /\ tPc = "found"
    /\ Len(tTasks) >= 2
    /\ 1 \notin ExactMatches
    /\ IsDottedDigits(stripPrefix(tInput))
    /\ IsDottedDigits(stripPrefix(tTasks[1].id))
    /\ SplitSegments(stripPrefix(tTasks[1].id)) = SplitSegments(stripPrefix(tInput))
    /\ tTasks[2].id # tInput
    /\ tFound = 2

\* C15: when no task's full id equals the input but for case, a task is
\* returned only if the input and the task's id, each without one leading
\* <letters>- prefix, are both dot-separated decimal segments, as many in
\* both and pairwise equal as numbers; when the input without its prefix is
\* not of that shape nothing is returned.
C15_SegmentsOnly ==
    (tPc \in {"found", "done"} /\ ExactMatches = {}) =>
        /\ tFound # 0 =>
              /\ IsDottedDigits(stripPrefix(tInput))
              /\ IsDottedDigits(stripPrefix(tTasks[tFound].id))
              /\ Len(SplitSegments(stripPrefix(tTasks[tFound].id)))
                    = Len(SplitSegments(stripPrefix(tInput)))
              /\ \A k \in 1..Len(SplitSegments(stripPrefix(tInput))) :
                    SplitSegments(stripPrefix(tTasks[tFound].id))[k]
                        = SplitSegments(stripPrefix(tInput))[k]
        /\ ~IsDottedDigits(stripPrefix(tInput)) => tFound = 0

\* no id is the input but for case; a task is found by its number, written
\* otherwise in the input, after a task of another number
C15_Witness ==
    /\ tPc = "found"
    /\ ExactMatches = {}
    /\ tFound = 2
    /\ stripPrefix(tTasks[2].id) # stripPrefix(tInput)
    /\ IsDottedDigits(stripPrefix(tTasks[1].id))
    /\ Len(SplitSegments(stripPrefix(tTasks[1].id))) = Len(SplitSegments(stripPrefix(tInput)))

(***************************************************************************)
(* Reordering: POST /api/tasks/reorder                                     *)
(***************************************************************************)
ReorderTaskIds == {"task-1", "task-2"}

ReorderStatuses == {"To Do", "Done"}

Branches == {"", "feature"}

\* what a request body can carry for each field
BodyTaskIds == ReorderTaskIds \cup {"task-9", "", NotAString}

BodyStatuses == ReorderStatuses \cup {"", NotAString}

BodyOrdered == ListsUpTo(ReorderTaskIds \cup {"task-9"}, MaxOrdered) \cup {NotAnArray}

BodyMilestones == {"m-1", "undefined"}

ReorderBodies ==
    [json : {TRUE}, taskId : BodyTaskIds, targetStatus : BodyStatuses,
     orderedTaskIds : BodyOrdered, targetMilestone : BodyMilestones] \cup {MalformedBody}

ReorderInit ==
    /\ MilestoneIdle
    /\ LooseIdle
    /\ ServerIdle
    /\ SearchIdle
    /\ WebIdle
    /\ SwitchIdle
    /\ HandlerIdle
    /\ \E b2 \in Branches :
        rTasks = << [id |-> "task-1", status |-> "To Do", branch |-> "", ordinal |-> 0],
                    [id |-> "task-2", status |-> "Done", branch |-> b2, ordinal |-> 0] >>
    /\ rBody = MalformedBody
    /\ rResponse = NoResponse
    /\ rPc = "idle"

\* POST /api/tasks/reorder arrives
ReceiveReorder ==
    /\ rPc = "idle"
    /\ rBody' \in ReorderBodies
    /\ rPc' = "received"
    /\ UNCHANGED <<rTasks, rResponse, notR>>

\* the handler runs to its response
HandleReorder ==
    /\ rPc = "received"
    /\ \E ioFails \in BOOLEAN :
        LET answer == handleReorderTask(rTasks, rBody, ioFails)
        IN  /\ rResponse' = [status |-> answer.status, success |-> answer.success]
            /\ rTasks' = answer.tasks
    /\ rPc' = "answered"
    /\ UNCHANGED <<rBody, notR>>

\* the response has been sent
FinishReorder ==
    /\ rPc = "answered"
    /\ rBody' = MalformedBody
    /\ rResponse' = NoResponse
    /\ rPc' = "idle"
    /\ UNCHANGED <<rTasks, notR>>

ReorderNext == ReceiveReorder \/ HandleReorder \/ FinishReorder

SpecReorder == ReorderInit /\ [][ReorderNext]_vars

\* the last request named a task that lives on another branch
NamesCrossBranchTask ==
    /\ rPc = "answered"
    /\ rBody.json
    /\ \E i \in 1..Len(rTasks) : rTasks[i].id = rBody.taskId /\ rTasks[i].branch # ""

ServerInit ==
    /\ MilestoneIdle
    /\ LooseIdle
    /\ ReorderIdle
    /\ SearchIdle
    /\ WebIdle
    /\ SwitchIdle
    /\ HandlerIdle
    /\ ServerConstructed
    /\ disk \in [TaskKeys -> {NoEntry, [rev |-> 1, live |-> TRUE]}]

\* core.getContentStore() called by ensureServicesReady call r: the store is
\* created on first use and its hydration awaited
GetContentStore(r) ==
    LET id == IF core.store # 0 THEN core.store ELSE core.created + 1
        before == IF core.store # 0 THEN stores[id] ELSE NewStore
    IN  /\ id \in StoreIds
        /\ stores' = [stores EXCEPT ![id] = ensureInitialized(before)]
        /\ core' = [core EXCEPT !.store = id,
                                !.created = IF core.store # 0 THEN @ ELSE @ + 1]
        /\ reqs' = [reqs EXCEPT ![r] = [pc |-> "awaitStore", store |-> id]]
        /\ out' = [NoOut EXCEPT !.op = "getContentStore", !.store = id,
                                !.wasReady = (before.state = "ready"),
                                !.changed = (ensureInitialized(before) # before)]

\* start(): no server yet, the configuration is being loaded
StartBegin ==
    /\ startPc = "idle"
    /\ ~srv.server
    /\ startPc' = "awaitConfig"
    /\ out' = NoOut
    /\ UNCHANGED <<stores, core, srv, sockets, reqs, stopPc, disk, notS>>

\* start(): the config watcher is set up and ensureServicesReady is called
StartConfigLoaded ==
    /\ startPc = "awaitConfig"
    /\ reqs[0].pc = "idle"
    /\ srv' = [srv EXCEPT !.configWatcher = TRUE]
    /\ GetContentStore(0)
    /\ startPc' = "awaitServices"
    /\ UNCHANGED <<sockets, stopPc, disk, notS>>

\* start(): Bun.serve
StartServe ==
    /\ startPc = "awaitServices"
    /\ reqs[0].pc = "done"
    /\ srv' = [srv EXCEPT !.server = TRUE]
    /\ reqs' = [reqs EXCEPT ![0] = [pc |-> "idle", store |-> 0]]
    /\ startPc' = "idle"
    /\ out' = NoOut
    /\ UNCHANGED <<stores, core, sockets, stopPc, disk, notS>>

\* a request handler calls getContentStoreInstance / getSearchServiceInstance
EnsureBegin(r) ==
    /\ r # 0
    /\ srv.server
    /\ reqs[r].pc = "idle"
    /\ GetContentStore(r)
    /\ UNCHANGED <<srv, sockets, startPc, stopPc, disk, notS>>

\* ensureServicesReady after await core.getContentStore(): the store is kept,
\* the server subscribes unless it holds a subscription, getSearchService is called
EnsureResume(r) ==
    LET id == reqs[r].store
        subscribes == srv.unsubscribeContentStore = 0
    IN  /\ reqs[r].pc = "awaitStore"
        /\ stores[id].state \in {"ready", "disposed"}
        /\ srv' = [srv EXCEPT !.contentStore = id,
                              !.unsubscribeContentStore = IF subscribes THEN id ELSE @]
        /\ stores' = IF subscribes
                     THEN [stores EXCEPT ![id] = subscribe(@, "server")]
                     ELSE stores
        /\ core' = [core EXCEPT !.search = TRUE]
        /\ reqs' = [reqs EXCEPT ![r].pc = "awaitSearch"]
        /\ out' = NoOut
        /\ UNCHANGED <<sockets, startPc, stopPc, disk, notS>>

\* ensureServicesReady after await core.getSearchService()
EnsureFinish(r) ==
    /\ reqs[r].pc = "awaitSearch"
    /\ srv' = [srv EXCEPT !.searchService = TRUE]
    /\ reqs' = [reqs EXCEPT ![r] = IF r = 0 THEN [pc |-> "done", store |-> 0]
                                   ELSE [pc |-> "idle", store |-> 0]]
    /\ out' = NoOut
    /\ UNCHANGED <<stores, core, sockets, startPc, stopPc, disk, notS>>

\* the handlers subscribed to a store
Handlers(id) == {stores[id].subscribers[i] : i \in 1..Len(stores[id].subscribers)}

\* the sockets the server holds
OpenSockets == {sockets[i] : i \in 1..Len(sockets)}

\* the deliveries of one fan-out of the store: every event goes to the
\* subscribers, the server's callback broadcasts to the sockets
FanOut(id, op, events, upserts, throwers, failing) ==
    LET subscribers == stores[id].subscribers
        invoked == notify(subscribers, throwers)
        reached == \E i \in 1..Len(invoked) : invoked[i] = "server"
        handled == IF reached THEN onStoreEvents(events, srv.storeReadyBroadcasted)
                   ELSE [flag |-> srv.storeReadyBroadcasted, broadcasts |-> 0]
        sent == broadcastTasksUpdated(sockets, failing)
    IN  /\ srv' = [srv EXCEPT !.storeReadyBroadcasted = handled.flag]
        /\ out' = [NoOut EXCEPT !.op = op, !.store = id, !.events = events,
                                !.subscribers = subscribers, !.invoked = invoked,
                                !.upserts = upserts,
                                !.threw = (\E i \in 1..Len(invoked) : invoked[i] \in throwers),
                                !.broadcasts = handled.broadcasts,
                                !.recipients = IF handled.broadcasts > 0 THEN sockets ELSE <<>>,
                                !.attempted = IF handled.broadcasts > 0 THEN sent.attempted ELSE <<>>,
                                !.delivered = IF handled.broadcasts > 0 THEN sent.delivered ELSE <<>>,
                                !.failed = IF handled.broadcasts > 0
                                           THEN OpenSockets \cap failing
                                           ELSE {}]

\* the hydration of a store completes: the cache is loaded, "ready" is emitted
HydrationDone(id) ==
    /\ stores[id].state = "hydrating"
    /\ stores' = [stores EXCEPT ![id] = hydrated(@, disk)]
    /\ \E throwers \in SUBSET (Handlers(id) \cap ExternalHandlers), failing \in SUBSET OpenSockets :
        FanOut(id, "ready", <<"ready">>, 0, throwers, failing)
    /\ UNCHANGED <<core, sockets, reqs, startPc, stopPc, disk, notS>>

\* the file watch feed reports a change of an entity file
WatchEvent(id, kind) ==
    /\ stores[id].state = "ready"
    /\ stores' = [stores EXCEPT ![id] = reloaded(@, kind, disk)]
    /\ stores'[id] # stores[id]
    /\ out' = NoOut
    /\ UNCHANGED <<core, srv, sockets, reqs, startPc, stopPc, disk, notS>>

\* handleGetTask / handleListTasks: the task the filesystem has is handed to
\* the store
UpsertTask(id, key) ==
    /\ stores[id].state \in {"hydrating", "ready"}
    /\ stores[id].burst < MaxBurst
    /\ disk[key].live
    /\ stores' = [stores EXCEPT ![id] = upsertTask(@, key, disk[key])]
    /\ out' = NoOut
    /\ UNCHANGED <<core, srv, sockets, reqs, startPc, stopPc, disk, notS>>

\* the scheduled flush: one event per pending kind
Flush(id) ==
    /\ stores[id].state = "ready"
    /\ stores[id].pending # {}
    /\ stores' = [stores EXCEPT ![id] = flushed(@)]
    /\ \E throwers \in SUBSET (Handlers(id) \cap ExternalHandlers), failing \in SUBSET OpenSockets :
        FanOut(id, "flush", flushEvents(stores[id].pending, stores[id].burst),
               stores[id].burst, throwers, failing)
    /\ UNCHANGED <<core, sockets, reqs, startPc, stopPc, disk, notS>>

\* another component subscribes a handler to the store
Subscribe(id, handler) ==
    /\ stores[id].state \in {"uninitialized", "hydrating", "ready"}
    /\ \A i \in 1..Len(stores[id].subscribers) : stores[id].subscribers[i] # handler
    /\ stores' = [stores EXCEPT ![id] = subscribe(@, handler)]
    /\ out' = NoOut
    /\ UNCHANGED <<core, srv, sockets, reqs, startPc, stopPc, disk, notS>>

Unsubscribe(id, handler) ==
    /\ \E i \in 1..Len(stores[id].subscribers) : stores[id].subscribers[i] = handler
    /\ stores' = [stores EXCEPT ![id] = unsubscribe(@, handler)]
    /\ out' = NoOut
    /\ UNCHANGED <<core, srv, sockets, reqs, startPc, stopPc, disk, notS>>

\* a task file is written or removed outside the server
ExternalEdit(key) ==
    /\ disk[key].rev < MaxRev
    /\ \E live \in BOOLEAN : disk' = [disk EXCEPT ![key] = [rev |-> @.rev + 1, live |-> live]]
    /\ out' = NoOut
    /\ UNCHANGED <<stores, core, srv, sockets, reqs, startPc, stopPc, notS>>

\* websocket.open
SocketOpen(ws) ==
    /\ srv.server
    /\ \A i \in 1..Len(sockets) : sockets[i] # ws
    /\ sockets' = Append(sockets, ws)
    /\ out' = NoOut
    /\ UNCHANGED <<stores, core, srv, reqs, startPc, stopPc, disk, notS>>

\* websocket.close
SocketClose(ws) ==
    /\ \E i \in 1..Len(sockets) : sockets[i] = ws
    /\ sockets' = LET Other(w) == w # ws IN SelectSeq(sockets, Other)
    /\ out' = NoOut
    /\ UNCHANGED <<stores, core, srv, reqs, startPc, stopPc, disk, notS>>

\* stop() leaving the content store of the core alone
StopBegin_noDispose ==
    /\ ~srv.stopping
    /\ stores' = [id \in StoreIds |->
          IF id = srv.unsubscribeContentStore THEN unsubscribe(stores[id], "server")
          ELSE stores[id]]
    /\ core' = [core EXCEPT !.search = FALSE]
    /\ srv' = [srv EXCEPT !.unsubscribeContentStore = 0, !.configWatcher = FALSE,
                          !.searchService = FALSE, !.contentStore = 0,
                          !.storeReadyBroadcasted = FALSE,
                          !.stopping = srv.server]
    /\ sockets' = <<>>
    /\ stopPc' = IF srv.server THEN "awaitServerStop" ELSE "idle"
    /\ out' = [NoOut EXCEPT !.op = "stop", !.store = core.store]
    /\ UNCHANGED <<reqs, startPc, disk, notS>>

\* stop() up to its await: unsubscribe, dispose the services, close the sockets
StopBegin ==
    /\ ~srv.stopping
    /\ stores' = [id \in StoreIds |->
          IF id = core.store
          THEN dispose(IF id = srv.unsubscribeContentStore THEN unsubscribe(stores[id], "server")
                       ELSE stores[id])
          ELSE IF id = srv.unsubscribeContentStore THEN unsubscribe(stores[id], "server")
          ELSE stores[id]]
    /\ core' = [core EXCEPT !.store = 0, !.search = FALSE]
    /\ srv' = [srv EXCEPT !.unsubscribeContentStore = 0, !.configWatcher = FALSE,
                          !.searchService = FALSE, !.contentStore = 0,
                          !.storeReadyBroadcasted = FALSE,
                          !.stopping = srv.server]
    /\ sockets' = <<>>
    /\ stopPc' = IF srv.server THEN "awaitServerStop" ELSE "idle"
    /\ out' = [NoOut EXCEPT !.op = "stop", !.store = core.store]
    /\ UNCHANGED <<reqs, startPc, disk, notS>>

\* stop() while another stop() is in flight returns at once
StopIgnored ==
    /\ srv.stopping
    /\ out' = [NoOut EXCEPT !.op = "stop ignored"]
    /\ UNCHANGED <<stores, core, srv, sockets, reqs, startPc, stopPc, disk, notS>>

\* stop() after the race of server.stop() and the timeout
StopEnd ==
    /\ stopPc = "awaitServerStop"
    /\ srv' = [srv EXCEPT !.server = FALSE, !.stopping = FALSE]
    /\ stopPc' = "idle"
    /\ out' = NoOut
    /\ UNCHANGED <<stores, core, sockets, reqs, startPc, disk, notS>>

ServerKinds == {"task", "document"}

ServerNext ==
    \/ StartBegin \/ StartConfigLoaded \/ StartServe
    \/ \E r \in ReqIds : EnsureBegin(r) \/ EnsureResume(r) \/ EnsureFinish(r)
    \/ \E id \in StoreIds : HydrationDone(id) \/ Flush(id)
    \/ \E id \in StoreIds, kind \in ServerKinds : WatchEvent(id, kind)
    \/ \E id \in StoreIds : Subscribe(id, "h1") \/ Unsubscribe(id, "h1")
    \/ \E ws \in SocketIds : SocketOpen(ws) \/ SocketClose(ws)
    \/ StopBegin \/ StopIgnored \/ StopEnd

SpecServer == ServerInit /\ [][ServerNext]_vars

(***************************************************************************)
(* One content store instance and the components using it                  *)
(***************************************************************************)
StoreInit ==
    /\ MilestoneIdle
    /\ LooseIdle
    /\ ReorderIdle
    /\ SearchIdle
    /\ WebIdle
    /\ SwitchIdle
    /\ HandlerIdle
    /\ stores = [id \in StoreIds |-> IF id = 1 THEN NewStore ELSE AbsentStore]
    /\ core = [store |-> 1, search |-> FALSE, created |-> 1]
    /\ srv = [server |-> FALSE, contentStore |-> 0, searchService |-> FALSE,
              unsubscribeContentStore |-> 0, storeReadyBroadcasted |-> FALSE,
              configWatcher |-> FALSE, stopping |-> FALSE]
    /\ sockets = <<>>
    /\ reqs = [r \in ReqIds |-> [pc |-> "idle", store |-> 0]]
    /\ startPc = "idle"
    /\ stopPc = "idle"
    /\ out = NoOut
    /\ disk \in [TaskKeys -> {NoEntry, [rev |-> 1, live |-> TRUE]}]

\* a hydration request: core.getContentStore() awaiting store.ensureInitialized()
EnsureInitialized(id) ==
    /\ stores[id].state \in {"uninitialized", "hydrating", "ready"}
    /\ stores' = [stores EXCEPT ![id] = ensureInitialized(@)]
    /\ out' = [NoOut EXCEPT !.op = "ensureInitialized", !.store = id,
                            !.wasReady = (stores[id].state = "ready"),
                            !.changed = (stores'[id] # stores[id])]
    /\ UNCHANGED <<core, srv, sockets, reqs, startPc, stopPc, disk, notS>>

\* core.disposeContentStore(), any number of times
DisposeContentStore(id) ==
    /\ stores[id].state # "absent"
    /\ stores' = [stores EXCEPT ![id] = dispose(@)]
    /\ core' = [core EXCEPT !.store = 0]
    /\ out' = [NoOut EXCEPT !.op = "dispose", !.store = id,
                            !.changed = (stores'[id] # stores[id])]
    /\ UNCHANGED <<srv, sockets, reqs, startPc, stopPc, disk, notS>>

StoreNext ==
    \/ EnsureInitialized(1) \/ HydrationDone(1) \/ Flush(1) \/ DisposeContentStore(1)
    \/ \E kind \in {"task", "document", "decision"} : WatchEvent(1, kind)
    \/ \E key \in TaskKeys : UpsertTask(1, key) \/ ExternalEdit(key)
    \/ \E handler \in ExternalHandlers : Subscribe(1, handler) \/ Unsubscribe(1, handler)

SpecStore == StoreInit /\ [][StoreNext]_vars

\* the events of a fan-out that are of the given type
CountOf(events, type) == Cardinality({i \in 1..Len(events) : events[i] = type})

\* C5: over the life of one store instance exactly one "ready" event is
\* emitted, by the first full hydration; every later fan-out carries only
\* kind-tagged events (task, document, decision), one for each kind a watch
\* event or a write made pending, and a hydration request made while the store
\* is ready changes nothing: the cache it returns is the existing one.
C5_ReadyOnce ==
    /\ \A id \in StoreIds :
          /\ stores[id].readyEmitted <= 1
          /\ stores[id].state = "ready" => stores[id].readyEmitted = 1
          /\ stores[id].state \in {"uninitialized", "hydrating"} => stores[id].readyEmitted = 0
          /\ stores[id].pending \subseteq {"task", "document", "decision"}
    /\ out.op = "ready" => out.events = <<"ready">>
    /\ out.op = "flush" =>
          /\ out.events # <<>>
          /\ \A i \in 1..Len(out.events) : out.events[i] \in {"task", "document", "decision"}
    /\ (out.op = "ensureInitialized" /\ out.wasReady) => ~out.changed

\* a hydration request on a ready store that has a watch-triggered change pending
C5_Witness ==
    /\ out.op = "ensureInitialized"
    /\ out.wasReady
    /\ stores[1].readyEmitted = 1
    /\ "document" \in stores[1].pending

\* C6: change events are coalesced: a flush that follows k >= 2 upsertTask
\* calls on the store delivers to the subscribers registered before them at
\* least one and fewer than k "task" events.
C6_Coalesced ==
    (out.op = "flush" /\ out.upserts >= 2) =>
        /\ CountOf(out.events, "task") >= 1
        /\ CountOf(out.events, "task") < out.upserts
        /\ out.invoked = out.subscribers

\* three upserts in one burst, flushed to a subscriber
C6_Witness ==
    /\ out.op = "flush"
    /\ out.upserts = 3
    /\ out.invoked # <<>>
    /\ CountOf(out.events, "task") = 1

\* C9: once an upsert on a store instance has completed, getTasks() on that
\* instance reflects it: the snapshot holds the task as written, or a later
\* revision of it that a watch event or the hydration read from the files.
C9_WriteVisible ==
    \A id \in StoreIds, key \in TaskKeys :
        stores[id].written[key] > 0 =>
            \/ /\ stores[id].cache[key].rev = stores[id].written[key]
               /\ key \in getTasks(stores[id])
            \/ stores[id].cache[key].rev > stores[id].written[key]

\* a write followed by a watch event of another kind: the task is still served
C9_Witness ==
    \E key \in TaskKeys :
        /\ stores[1].written[key] > 0
        /\ stores[1].state = "ready"
        /\ "decision" \in stores[1].pending
        /\ key \in getTasks(stores[1])
        /\ stores[1].cache[key].rev = stores[1].written[key]

\* C7: a fan-out invokes the subscribers of the store in registration order
\* and every one of them, whichever of them throw; a tasks-updated broadcast
\* attempts every socket in insertion order and reaches every socket whose
\* send does not fail, whichever sends fail before it.
C7_FanOutIsolated ==
    out.op \in {"ready", "flush"} =>
        /\ out.invoked = out.subscribers
        /\ out.attempted = out.recipients
        /\ out.delivered = LET Sends(ws) == ws \notin out.failed
                           IN  SelectSeq(out.recipients, Sends)

\* a handler registered before the server's throws, the send to the first
\* socket fails: the server's callback still runs and the second socket is sent to
C7_Witness ==
    /\ out.op = "flush"
    /\ out.threw
    /\ out.invoked = <<"h1", "server">>
    /\ out.broadcasts > 0
    /\ Len(out.attempted) = 2
    /\ out.failed = {out.attempted[1]}
    /\ out.delivered = <<out.attempted[2]>>

SearchTasks ==
    <<[id |-> "task-5", status |-> "To Do", priority |-> <<"h", "i", "g", "h">>,
       labels |-> {<<"a">>}],
      [id |-> "task-4", status |-> "In Progress", priority |-> <<"h", "i", "g", "h">>,
       labels |-> {<<"b">>}],
      [id |-> "task-3", status |-> "Done", priority |-> <<"h", "i", "g", "h">>,
       labels |-> {<<"a">>}],
      [id |-> "task-2", status |-> "To Do", priority |-> <<"l", "o", "w">>,
       labels |-> {<<"a">>, <<"c">>}],
      [id |-> "task-1", status |-> "In Progress", priority |-> <<"m", "e", "d", "i", "u", "m">>,
       labels |-> {}]>>

StatusParams == {"To Do", "In Progress"}

PriorityParams == {<<"H", "i", "g", "h">>, <<"l", "o", "w">>, <<"x">>, <<>>}

LabelParams == {<<"c">>}

\* values of a labels parameter: "a,b", " a" and a blank
LabelsParams == {<<"a", ",", "b">>, <<" ", "a">>, <<" ">>}

LimitParams ==
    {[given |-> FALSE, value |-> <<>>], [given |-> TRUE, value |-> <<"1">>],
     [given |-> TRUE, value |-> <<"0">>], [given |-> TRUE, value |-> <<"x">>]}

TypeParams == {<<>>, <<<<"T", "a", "s", "k">>>>, <<<<"x">>>>}

SearchRequests ==
    [limit : LimitParams, type : TypeParams,
     status : ListsUpTo(StatusParams, MaxStatusParams),
     priority : ListsUpTo(PriorityParams, MaxPriorityParams),
     label : ListsUpTo(LabelParams, MaxLabelParams),
     labels : ListsUpTo(LabelsParams, MaxLabelsParams)]

SearchInit ==
    /\ MilestoneIdle
    /\ LooseIdle
    /\ ReorderIdle
    /\ ServerIdle
    /\ SearchIdle
    /\ WebIdle
    /\ SwitchIdle
    /\ HandlerIdle

\* a GET /api/search request arrives
ReceiveSearch ==
    /\ qPc = "idle"
    /\ qReq' \in SearchRequests
    /\ qPc' = "received"
    /\ UNCHANGED <<qResponse, notQ>>

\* the request is handled and answered
HandleSearch ==
    /\ qPc = "received"
    /\ \E searchFails \in BOOLEAN :
        qResponse' = handleSearch(SearchTasks, qReq, searchFails)
    /\ qPc' = "answered"
    /\ UNCHANGED <<qReq, notQ>>

FinishSearch ==
    /\ qPc = "answered"
    /\ qReq' = NoRequest
    /\ qResponse' = NoSearchResponse
    /\ qPc' = "idle"
    /\ UNCHANGED notQ

SearchNext == ReceiveSearch \/ HandleSearch \/ FinishSearch

SpecSearch == SearchInit /\ [][SearchNext]_vars

Values(list) == {list[i] : i \in 1..Len(list)}

\* the non-blank values of a list of strings, trimmed, in order
NonBlank(list) ==
    LET NotEmpty(value) == value # <<>>
    IN  SelectSeq([i \in 1..Len(list) |-> Trim(list[i])], NotEmpty)

\* the comma-separated items of a list of labels parameters
RECURSIVE Items(_)
Items(labels) ==
    IF labels = <<>> THEN <<>> ELSE Split(Head(labels), ",") \o Items(Tail(labels))

\* the label values a request names: its label parameters and the items of its
\* labels parameters
GivenLabels == NonBlank(qReq.label \o Items(qReq.labels))

GivenPriorities == [i \in 1..Len(qReq.priority) |-> ToLowerCase(qReq.priority[i])]

\* the tasks of a response pass every filter dimension the values name
ResultsPass(status, priority, labels) ==
    \A i \in 1..Len(SearchTasks) :
        SearchTasks[i].id \in Values(qResponse.results) =>
            /\ status = {} \/ SearchTasks[i].status \in status
            /\ priority = {} \/ SearchTasks[i].priority \in priority
            /\ labels = {} \/ SearchTasks[i].labels \cap labels # {}

\* one value arrives as a single value, several as a list holding each of them
ForwardedAsGiven(given, filter) ==
    /\ Len(given) = 0 => filter.shape = "absent"
    /\ Len(given) = 1 => (filter.shape = "single" /\ filter.values = given)
    /\ Len(given) > 1 => (filter.shape = "list" /\ Values(given) \subseteq Values(filter.values))

\* C10: the tasks a successful search returns match, in every dimension the
\* request names (status, priority, labels), one of the values it names, and
\* the handler hands a dimension with one value on as a single value and a
\* dimension with several values as a list that holds each of them.
C10_ForwardedAsGiven ==
    (qPc = "answered" /\ qResponse.status = 200) =>
        /\ ResultsPass(Values(qReq.status), Values(GivenPriorities), Values(GivenLabels))
        /\ ForwardedAsGiven(qReq.status, qResponse.filters.status)
        /\ ForwardedAsGiven(GivenPriorities, qResponse.filters.priority)
        /\ ForwardedAsGiven(GivenLabels, qResponse.filters.labels)

\* C23: unless the search service is unavailable, a request whose limit
\* does not parse to a positive integer, one of whose priority values is,
\* lowercased, none of high, medium and low, or whose types are given with
\* none of them task, document or decision, is answered 400 without a
\* search; every other request is searched, with allowed priorities only.
C23_ValidatedAtBoundary ==
    (qPc = "answered" /\ qResponse.status # 500) =>
        LET parsed == NumberParseInt(qReq.limit.value)
            badLimit == qReq.limit.given /\ (parsed.nan \/ parsed.value <= 0)
            badPriority == \E i \in 1..Len(GivenPriorities) :
                              GivenPriorities[i] \notin allowedPriorities
            badTypes == /\ Len(qReq.type) > 0
                        /\ \A i \in 1..Len(qReq.type) : ToLowerCase(qReq.type[i]) \notin allowedTypes
        IN  IF badLimit \/ badPriority \/ badTypes
            THEN qResponse.status = 400 /\ ~qResponse.searched
            ELSE /\ qResponse.status = 200
                 /\ qResponse.searched
                 /\ Values(qResponse.filters.priority.values) \subseteq allowedPriorities

(***************************************************************************)
(* MilestonesPage (web/components/MilestonesPage.tsx): the search box      *)
(***************************************************************************)
\* String.prototype.includes
Includes(s, q) == \E i \in 1..(Len(s) - Len(q) + 1) : SubSeq(s, i, i + Len(q) - 1) = q

RECURSIVE FlatMapTasks(_)
FlatMapTasks(buckets) ==
    IF buckets = <<>> THEN <<>> ELSE Head(buckets).tasks \o FlatMapTasks(Tail(buckets))

\* isDoneStatus of utils/milestones as the page uses it: the status names
\* done or complete
isDoneStatus(status) == status \in {"Done", "done", "Complete"}

\* the rebuilt bucket keeping the counts of the unfiltered bucket
rebuildFilteredBucket_keepCounts(bucket, filteredTasks, statuses) ==
    [bucket EXCEPT !.tasks = filteredTasks]

\* rebuildFilteredBucket: the bucket with the filtered tasks, their count per
\* status (every status of statuses counted from 0, a task without status
\* counted under ""), their number and the number of done ones
rebuildFilteredBucket(bucket, filteredTasks, statuses) ==
    LET counted == {statuses[i] : i \in 1..Len(statuses)} \cup
                   {filteredTasks[i].status : i \in 1..Len(filteredTasks)}
        counts == [status \in counted |->
                      Len(SelectSeq(filteredTasks, LAMBDA task : task.status = status))]
        doneCount == Len(SelectSeq(filteredTasks, LAMBDA task : isDoneStatus(task.status)))
    IN  [bucket EXCEPT !.tasks = filteredTasks, !.statusCounts = counts,
                       !.total = Len(filteredTasks), !.doneCount = doneCount]

\* what fuse.search may return for a query: of the searchable tasks at least
\* those whose title or id contains the query (of two characters or more)
FuseResults(searchableTasks, query) ==
    LET ids == {searchableTasks[i].id : i \in 1..Len(searchableTasks)}
        sure == {searchableTasks[i].id : i \in
                   {j \in 1..Len(searchableTasks) :
                       /\ Len(query) >= 2
                       /\ \/ Includes(ToLowerCase(searchableTasks[j].title), ToLowerCase(query))
                          \/ Includes(ToLowerCase(searchableTasks[j].id), ToLowerCase(query))}}
    IN  {found \in SUBSET ids : sure \subseteq found}

\* visibleBuckets handing every query to the fuzzy search
visibleBuckets_fuseOnly(buckets, searchQuery, fuse, statuses) ==
    LET searchableTasks == FlatMapTasks(buckets)
        Matched(task) == task.id \in fuse
    IN  IF Len(Trim(searchQuery)) = 0 THEN buckets
        ELSE IF Len(searchableTasks) = 0
             THEN [b \in 1..Len(buckets) |-> rebuildFilteredBucket(buckets[b], <<>>, statuses)]
        ELSE [b \in 1..Len(buckets) |->
                 rebuildFilteredBucket(buckets[b], SelectSeq(buckets[b].tasks, Matched), statuses)]

\* visibleBuckets: the buckets with the tasks the query matches; fuse is what
\* fuse.search returns for the trimmed query
visibleBuckets(buckets, searchQuery, fuse, statuses) ==
    LET searchQueryTrimmed == Trim(searchQuery)
        isSearchActive == Len(searchQueryTrimmed) > 0
        searchableTasks == FlatMapTasks(buckets)
        normalizedQuery == ToLowerCase(searchQueryTrimmed)
        exactIdMatches == {searchableTasks[i].id : i \in
                             {j \in 1..Len(searchableTasks) :
                                 ToLowerCase(searchableTasks[j].id) = normalizedQuery}}
        matchedTaskIds == IF exactIdMatches # {} THEN exactIdMatches ELSE fuse
        Matched(task) == task.id \in matchedTaskIds
    IN  IF ~isSearchActive THEN buckets
        ELSE IF Len(searchableTasks) = 0
             THEN [b \in 1..Len(buckets) |-> rebuildFilteredBucket(buckets[b], <<>>, statuses)]
        ELSE [b \in 1..Len(buckets) |->
                 rebuildFilteredBucket(buckets[b], SelectSeq(buckets[b].tasks, Matched), statuses)]

\* the tasks the page can be given: [id, title, status], "" for no status
PageTasks ==
    {[id |-> <<"t", "-", "1">>, title |-> <<"a", "b">>, status |-> "To Do"],
     [id |-> <<"t", "-", "1", "0">>, title |-> <<"t", "-", "1", " ", "b">>, status |-> "Done"],
     [id |-> <<"T", "-", "1">>, title |-> <<"x">>, status |-> ""],
     [id |-> <<"t", "-", "2">>, title |-> <<"t", "-", "1">>, status |-> "Blocked"]}

\* the statuses of the project configuration
PageStatuses == <<"To Do", "Done">>

PageQueries ==
    {<<>>, <<" ">>, <<"t", "-", "1">>, <<" ", "T", "-", "1", "0">>, <<"a", "b">>,
     <<"1">>, <<"z", "z">>}

\* the unassigned bucket and one milestone bucket, every task in one of them,
\* each bucket with the counts of its tasks
PageBuckets ==
    {<<rebuildFilteredBucket([key |-> "", tasks |-> <<>>, statusCounts |-> <<>>,
                              total |-> 0, doneCount |-> 0],
                             SelectSeq(tasks, LAMBDA task : task \in unassigned),
                             PageStatuses),
       rebuildFilteredBucket([key |-> "m-1", tasks |-> <<>>, statusCounts |-> <<>>,
                              total |-> 0, doneCount |-> 0],
                             SelectSeq(tasks, LAMBDA task : task \notin unassigned),
                             PageStatuses)>> :
       tasks \in {list \in ListsUpTo(PageTasks, MaxPageTasks) :
                     \A i, j \in 1..Len(list) : i # j => list[i] # list[j]},
       unassigned \in SUBSET PageTasks}

MilestonesInit ==
    /\ MilestoneIdle
    /\ LooseIdle
    /\ ReorderIdle
    /\ ServerIdle
    /\ SearchIdle
    /\ WebIdle
    /\ SwitchIdle
    /\ HandlerIdle

\* the page is shown with its buckets and the user types a query
MilestonesSearch ==
    /\ wPc = "idle"
    /\ \E buckets \in PageBuckets, searchQuery \in PageQueries :
        \E fuse \in FuseResults(FlatMapTasks(buckets), Trim(searchQuery)) :
            wProps' = [buckets |-> buckets, searchQuery |-> searchQuery, fuse |-> fuse]
    /\ wPc' = "given"
    /\ UNCHANGED <<wView, notW>>

\* the page computes the buckets it shows
MilestonesRender ==
    /\ wPc = "given"
    /\ wView' = visibleBuckets(wProps.buckets, wProps.searchQuery, wProps.fuse, PageStatuses)
    /\ wPc' = "rendered"
    /\ UNCHANGED <<wProps, notW>>

\* the page is left
MilestonesLeave ==
    /\ wPc = "rendered"
    /\ wProps' = <<>>
    /\ wView' = <<>>
    /\ wPc' = "idle"
    /\ UNCHANGED notW

MilestonesNext == MilestonesSearch \/ MilestonesRender \/ MilestonesLeave

SpecMilestonesPage == MilestonesInit /\ [][MilestonesNext]_vars

\* the tasks of the buckets whose id is the query but for case
IdIsQuery(task) == ToLowerCase(task.id) = ToLowerCase(Trim(wProps.searchQuery))

\* C11: when the query (trimmed) equals the full id of a task of the page but
\* for case, the visible tasks of every bucket are exactly the bucket's tasks
\* with that id: no task that only the fuzzy search matches is shown.
C11_ExactIdOnly ==
    (wPc = "rendered" /\ \E i \in 1..Len(FlatMapTasks(wProps.buckets)) :
                            IdIsQuery(FlatMapTasks(wProps.buckets)[i])) =>
        \A b \in 1..Len(wProps.buckets) :
            /\ wView[b].tasks = SelectSeq(wProps.buckets[b].tasks, IdIsQuery)
            /\ wView[b].total = Len(wView[b].tasks)

\* the query is the id of one task but for case; the fuzzy search would also
\* return a task naming that id in its title, which is not shown
C11_Witness ==
    /\ wPc = "rendered"
    /\ wProps.searchQuery = <<"t", "-", "1">>
    /\ <<"t", "-", "1", "0">> \in wProps.fuse
    /\ Len(FlatMapTasks(wProps.buckets)) = 3
    /\ FlatMapTasks(wView) = <<[id |-> <<"T", "-", "1">>, title |-> <<"x">>, status |-> ""]>>

RECURSIVE SumCounts(_, _)
SumCounts(counts, keys) ==
    IF keys = {} THEN 0
    ELSE LET key == CHOOSE k \in keys : TRUE
         IN  counts[key] + SumCounts(counts, keys \ {key})

\* the tasks of list are tasks of original, in the order of original
IsSubSeqOf(list, original) ==
    \E kept \in SUBSET (1..Len(original)) :
        LET indexed == [i \in 1..Len(original) |-> <<i, original[i]>>]
            selected == SelectSeq(indexed, LAMBDA pair : pair[1] \in kept)
        IN  list = [i \in 1..Len(selected) |-> selected[i][2]]

\* C21: whatever the query, the visible buckets have the keys of the
\* unfiltered buckets in their order, the tasks of each visible bucket are
\* tasks of that bucket, total is their number, doneCount is at most total
\* and the status counts add up to total.
C21_SectionsKept ==
    wPc = "rendered" =>
        /\ Len(wView) = Len(wProps.buckets)
        /\ \A b \in 1..Len(wView) :
            /\ wView[b].key = wProps.buckets[b].key
            /\ IsSubSeqOf(wView[b].tasks, wProps.buckets[b].tasks)
            /\ wView[b].total = Len(wView[b].tasks)
            /\ wView[b].doneCount <= wView[b].total
            /\ SumCounts(wView[b].statusCounts, DOMAIN wView[b].statusCounts) = wView[b].total

\* a query nothing matches: both sections are still there, empty, although
\* the buckets have tasks, one of them without a configured status
C21_Witness ==
    /\ wPc = "rendered"
    /\ wProps.searchQuery = <<"z", "z">>
    /\ wProps.fuse = {}
    /\ wProps.buckets[1].total = 1
    /\ wProps.buckets[2].total = 2
    /\ \E i \in 1..2 : wProps.buckets[2].tasks[i].status = "Blocked"
    /\ Len(wView) = 2
    /\ wView[1].tasks = <<>> /\ wView[2].tasks = <<>>

(***************************************************************************)
(* TaskList (src/web/components/Navigation.tsx): the order of the listed   *)
(* tasks and the milestone filter.  The page has no archived milestones,   *)
(* so archivedMilestoneKeys is empty.                                      *)
(***************************************************************************)
\* taskId.trim().match(/(\d+)$/) parsed, -1 standing for null
extractTaskNumericId(taskId) ==
    LET trimmed == Trim(taskId)
        Runs == {k \in 1..Len(trimmed) : \A i \in k..Len(trimmed) : IsDigitChar(trimmed[i])}
    IN  IF Runs = {} THEN -1
        ELSE ParseInt(SubSeq(trimmed, FirstIndex(Runs), Len(trimmed)))

\* Intl.Collator(undefined, {sensitivity: "base", numeric: true}).compare on
\* texts of blanks, punctuation, digits and letters: case is ignored, blanks
\* and punctuation sort before digits and digits before letters; a shorter
\* text sorts before its extensions
RECURSIVE compareText(_, _)
compareText(a, b) ==
    LET order == <<" ", "_", "-", ".">> \o DigitChars \o LowerChars
        Rank(c) == FirstIndex({i \in 1..Len(order) : order[i] = LowerChar(c)})
    IN  IF Len(a) = 0 /\ Len(b) = 0 THEN 0
        ELSE IF Len(a) = 0 THEN -1
        ELSE IF Len(b) = 0 THEN 1
        ELSE IF Rank(a[1]) # Rank(b[1]) THEN (IF Rank(a[1]) < Rank(b[1]) THEN -1 ELSE 1)
        ELSE compareText(Tail(a), Tail(b))

compareTaskIdsAscending(a, b) ==
    LET idA == extractTaskNumericId(a.id)
        idB == extractTaskNumericId(b.id)
    IN  IF idA # -1 /\ idB # -1 THEN idA - idB
        ELSE IF idA # -1 THEN -1
        ELSE IF idB # -1 THEN 1
        ELSE compareText(a.id, b.id)

\* [...list].sort(compare): Array.prototype.sort is stable, elements that
\* compare equal keep the order they have in list
sort(list, compare(_, _)) ==
    LET n == Len(list)
        p == CHOOSE p \in Permutations(1..n) :
                \A i, j \in 1..n :
                    i < j => \/ compare(list[p[i]], list[p[j]]) < 0
                             \/ compare(list[p[i]], list[p[j]]) = 0 /\ p[i] < p[j]
    IN  [i \in 1..n |-> list[p[i]]]

sortTasksByIdDescending(list) ==
    sort(list, LAMBDA a, b : compareTaskIdsAscending(b, a))

\* the alias map of the active milestones: alias key -> milestone id
milestoneAliasToCanonical(milestoneEntities) ==
    LET mDash == <<"m", "-">>
        put(map, key, id) ==
            [k \in (DOMAIN map) \cup {key} |-> IF k = key THEN id ELSE map[k]]
        numericAlias(digits) == NumToString(ParseInt(digits))
        collectIdAliasKeys(value) ==
            LET normalized == Trim(value)
                normalizedKey == ToLowerCase(normalized)
            IN  IF normalizedKey = <<>> THEN {}
                ELSE IF IsDigits(normalized)
                THEN {normalizedKey, numericAlias(normalized), mDash \o numericAlias(normalized)}
                ELSE IF IsMDashDigits(normalized)
                THEN {normalizedKey, mDash \o numericAlias(SubSeq(normalized, 3, Len(normalized))),
                      numericAlias(SubSeq(normalized, 3, Len(normalized)))}
                ELSE {normalizedKey}
        reservedIdKeys ==
            UNION {collectIdAliasKeys(milestoneEntities[i].id) : i \in 1..Len(milestoneEntities)}
        \* setAlias(aliasKey, id, true)
        setAlias(map, aliasKey, id) ==
            IF aliasKey \notin DOMAIN map THEN put(map, aliasKey, id)
            ELSE LET preferredRawId ==
                         IF IsDigits(aliasKey) THEN mDash \o aliasKey
                         ELSE IF IsMDashDigits(aliasKey) /\ aliasKey[1] = "m" THEN aliasKey
                         ELSE <<>>
                     existingIsPreferred == ToLowerCase(map[aliasKey]) = preferredRawId
                     nextIsPreferred == ToLowerCase(id) = preferredRawId
                 IN  IF preferredRawId # <<>>
                     THEN (IF nextIsPreferred /\ ~existingIsPreferred
                           THEN put(map, aliasKey, id) ELSE map)
                     ELSE put(map, aliasKey, id)
        addIdAliases(map, id) ==
            LET withId == setAlias(map, ToLowerCase(id), id)
                alias == numericAlias(SubSeq(id, 3, Len(id)))
            IN  IF ~IsMDashDigits(id) THEN withId
                ELSE setAlias(setAlias(withId, mDash \o alias, id), alias, id)
        titleKey(i) == ToLowerCase(Trim(milestoneEntities[i].title))
        activeTitleCounts(key) ==
            Cardinality({i \in 1..Len(milestoneEntities) : titleKey(i) = key})
        RECURSIVE aliasesFrom(_, _)
        aliasesFrom(i, map) ==
            IF i > Len(milestoneEntities) THEN map
            ELSE LET id == Trim(milestoneEntities[i].id)
                     withIds == addIdAliases(map, id)
                 IN  IF id = <<>> THEN aliasesFrom(i + 1, map)
                     ELSE IF /\ titleKey(i) # <<>>
                             /\ titleKey(i) \notin reservedIdKeys
                             /\ activeTitleCounts(titleKey(i)) = 1
                             /\ titleKey(i) \notin DOMAIN withIds
                     THEN aliasesFrom(i + 1, put(withIds, titleKey(i), id))
                     ELSE aliasesFrom(i + 1, withIds)
    IN  aliasesFrom(1, <<>>)

canonicalizeMilestone(value, aliasMap) ==
    LET normalized == Trim(value)
        key == ToLowerCase(normalized)
        byNumber(digits) ==
            LET numericAlias == NumToString(ParseInt(digits))
            IN  IF <<"m", "-">> \o numericAlias \in DOMAIN aliasMap
                THEN aliasMap[<<"m", "-">> \o numericAlias]
                ELSE IF numericAlias \in DOMAIN aliasMap THEN aliasMap[numericAlias]
                ELSE normalized
    IN  IF normalized = <<>> THEN <<>>
        ELSE IF key \in DOMAIN aliasMap THEN aliasMap[key]
        ELSE IF IsMDashDigits(normalized) THEN byNumber(SubSeq(normalized, 3, Len(normalized)))
        ELSE IF IsDigits(normalized) THEN byNumber(normalized)
        ELSE normalized

filterByMilestone(list, milestoneFilter, aliasMap) ==
    LET normalized == canonicalizeMilestone(milestoneFilter, aliasMap)
        Kept(task) ==
            IF normalized = <<"_", "_", "n", "o", "n", "e">>
            THEN canonicalizeMilestone(task.milestone, aliasMap) = <<>>
            ELSE canonicalizeMilestone(task.milestone, aliasMap) = normalized
    IN  IF normalized = <<>> THEN list ELSE SelectSeq(list, Kept)

\* the displayTasks state after the effects of TaskList have run:
\* props [tasks, milestoneEntities, milestoneFilter, statusFilter, results,
\* searchThrows], results being what apiClient.search answers
displayTasks(props) ==
    LET aliasMap == milestoneAliasToCanonical(props.milestoneEntities)
        sortedBaseTasks == sortTasksByIdDescending(props.tasks)
        hasActiveFilters == props.statusFilter # <<>> \/ props.milestoneFilter # <<>>
        shouldUseApi == props.statusFilter # <<>>
    IN  IF ~hasActiveFilters THEN sortedBaseTasks
        ELSE IF ~shouldUseApi
        THEN filterByMilestone(sortedBaseTasks, props.milestoneFilter, aliasMap)
        ELSE IF props.searchThrows THEN <<>>
        ELSE sortTasksByIdDescending(
                 filterByMilestone(props.results, props.milestoneFilter, aliasMap))

PRIORITY_RANK(priority) ==
    IF ToLowerCase(priority) = <<"h", "i", "g", "h">> THEN 3
    ELSE IF ToLowerCase(priority) = <<"m", "e", "d", "i", "u", "m">> THEN 2
    ELSE IF ToLowerCase(priority) = <<"l", "o", "w">> THEN 1
    ELSE 0

\* the comparator of sortedDisplayTasks; a task carries label, what
\* getMilestoneLabel answers for its milestone, and created, what
\* parseStoredUtcDate(createdDate)?.getTime() answers (-1 for undefined)
compareDisplayTasks(a, b, sortColumn, sortDirection) ==
    LET withDirection(value) == IF sortDirection = "asc" THEN value ELSE 0 - value
        result ==
            CASE sortColumn = "id" -> withDirection(compareTaskIdsAscending(a, b))
              [] sortColumn = "title" -> withDirection(compareText(a.title, b.title))
              [] sortColumn = "status" -> withDirection(compareText(a.status, b.status))
              [] sortColumn = "priority" ->
                    withDirection(PRIORITY_RANK(a.priority) - PRIORITY_RANK(b.priority))
              [] sortColumn = "milestone" -> withDirection(compareText(a.label, b.label))
              [] sortColumn = "created" ->
                    IF a.created = -1 /\ b.created = -1 THEN 0
                    ELSE IF a.created = -1 THEN 1
                    ELSE IF b.created = -1 THEN -1
                    ELSE withDirection(a.created - b.created)
    IN  IF result # 0 THEN result ELSE compareTaskIdsAscending(b, a)

sortedDisplayTasks(list, sortColumn, sortDirection) ==
    sort(list, LAMBDA a, b : compareDisplayTasks(a, b, sortColumn, sortDirection))

\* the rows of the table
TaskListRows(props) ==
    sortedDisplayTasks(displayTasks(props), props.sortColumn, props.sortDirection)

\* the arrangements of a list
Arrangements(list) ==
    {[i \in 1..Len(list) |-> list[p[i]]] : p \in Permutations(1..Len(list))}

\* the tasks of the project: two tasks, a subtask of each, and a draft whose
\* id ends in no number
ListTasks ==
    <<[id |-> <<"t", "a", "s", "k", "-", "1">>, title |-> <<"b">>, status |-> <<"T">>,
       priority |-> <<"h", "i", "g", "h">>, milestone |-> <<"m", "-", "1">>,
       label |-> <<"r">>, created |-> 2],
      [id |-> <<"t", "a", "s", "k", "-", "2">>, title |-> <<"B">>, status |-> <<"T">>,
       priority |-> <<"H", "i", "g", "h">>, milestone |-> <<"1">>,
       label |-> <<"r">>, created |-> 1],
      [id |-> <<"t", "a", "s", "k", "-", "1", ".", "1">>, title |-> <<"a">>, status |-> <<"T">>,
       priority |-> <<>>, milestone |-> <<"R">>,
       label |-> <<"r">>, created |-> -1],
      [id |-> <<"t", "a", "s", "k", "-", "2", ".", "1">>, title |-> <<"a">>, status |-> <<"T">>,
       priority |-> <<"l", "o", "w">>, milestone |-> <<"m", "-", "1">>,
       label |-> <<"r">>, created |-> 1],
      [id |-> <<"t", "a", "s", "k", "-", "a">>, title |-> <<"a", "b">>, status |-> <<"B">>,
       priority |-> <<"m", "e", "d", "i", "u", "m">>, milestone |-> <<>>,
       label |-> <<>>, created |-> 2]>>

TaskListInit ==
    /\ MilestoneIdle
    /\ LooseIdle
    /\ ReorderIdle
    /\ ServerIdle
    /\ SearchIdle
    /\ WebIdle
    /\ SwitchIdle
    /\ HandlerIdle

\* the list is shown with its tasks, filters and sort column; with a status
\* filter the server answers the tasks of that status, in the order it has them
TaskListGiven ==
    /\ wPc = "idle"
    /\ \E n \in 0..MaxListTasks :
        \E pick \in [1..n -> 1..Len(ListTasks)] :
            /\ \A i, j \in 1..n : pick[i] = pick[j] => i = j
            /\ \E milestoneEntities \in {<<>>, <<[id |-> <<"m", "-", "1">>, title |-> <<"r">>]>>},
                  milestoneFilter \in {<<>>, <<"M", "-", "0", "1">>, <<"_", "_", "n", "o", "n", "e">>},
                  status \in {<<>>, <<"T">>},
                  sortColumn \in {"id", "title", "status", "priority", "milestone", "created"},
                  sortDirection \in {"asc", "desc"},
                  searchThrows \in BOOLEAN :
                LET tasks == [i \in 1..n |-> ListTasks[pick[i]]]
                    HasStatus(task) == task.status = status
                IN  \E results \in IF status = <<>> \/ searchThrows THEN {<<>>}
                                   ELSE Arrangements(SelectSeq(tasks, HasStatus)) :
                        wProps' = [tasks |-> tasks, milestoneEntities |-> milestoneEntities,
                                   milestoneFilter |-> milestoneFilter,
                                   statusFilter |-> status, results |-> results,
                                   searchThrows |-> searchThrows /\ status # <<>>,
                                   sortColumn |-> sortColumn, sortDirection |-> sortDirection]
    /\ wPc' = "given"
    /\ UNCHANGED <<wView, notW>>

\* the list computes its rows
TaskListRender ==
    /\ wPc = "given"
    /\ wView' = TaskListRows(wProps)
    /\ wPc' = "rendered"
    /\ UNCHANGED <<wProps, notW>>

\* the list is left
TaskListLeave ==
    /\ wPc = "rendered"
    /\ wProps' = <<>>
    /\ wView' = <<>>
    /\ wPc' = "idle"
    /\ UNCHANGED notW

TaskListNext == TaskListGiven \/ TaskListRender \/ TaskListLeave

SpecTaskList == TaskListInit /\ [][TaskListNext]_vars

\* the task passes the filters of the list
MatchesFilters(task) ==
    /\ wProps.statusFilter # <<>> => task.status = wProps.statusFilter
    /\ filterByMilestone(<<task>>, wProps.milestoneFilter,
                         milestoneAliasToCanonical(wProps.milestoneEntities)) # <<>>

\* C12: with filters only and the default sort (id, descending), when the
\* search does not fail, the rows are all the tasks passing the filters, by
\* descending numeric id, and they are the same rows whatever the order in
\* which the tasks were supplied to the list and answered by the server.
C12_Deterministic ==
    (/\ wPc = "rendered"
     /\ wProps.statusFilter # <<>> \/ wProps.milestoneFilter # <<>>
     /\ wProps.sortColumn = "id" /\ wProps.sortDirection = "desc"
     /\ ~wProps.searchThrows) =>
        /\ wView \in Arrangements(SelectSeq(wProps.tasks, MatchesFilters))
        /\ \A i, j \in 1..Len(wView) :
              (i < j /\ extractTaskNumericId(wView[i].id) # -1
                     /\ extractTaskNumericId(wView[j].id) # -1) =>
                  extractTaskNumericId(wView[i].id) >= extractTaskNumericId(wView[j].id)
        /\ \A tasks \in Arrangements(wProps.tasks), results \in Arrangements(wProps.results) :
              TaskListRows([wProps EXCEPT !.tasks = tasks, !.results = results]) = wView

\* C13: whatever the sort column and direction, two rows of the list (their
\* ids are distinct) never tie: the comparator of the rows puts the earlier
\* row strictly before the later one.
C13_NoTies ==
    wPc = "rendered" =>
        \A i, j \in 1..Len(wView) :
            i < j => compareDisplayTasks(wView[i], wView[j],
                                         wProps.sortColumn, wProps.sortDirection) < 0

(***************************************************************************)
(* The server's store subscription: the events its callback receives       *)
(***************************************************************************)
\* the server after start(): the store is hydrated, the server subscribed
SubscriptionInit ==
    /\ MilestoneIdle
    /\ LooseIdle
    /\ ReorderIdle
    /\ SearchIdle
    /\ WebIdle
    /\ SwitchIdle
    /\ HandlerIdle
    /\ disk \in [TaskKeys -> {NoEntry, [rev |-> 1, live |-> TRUE]}]
    /\ stores = [id \in StoreIds |->
          IF id = 1 THEN subscribe(hydrated(ensureInitialized(NewStore), disk), "server")
          ELSE AbsentStore]
    /\ core = [store |-> 1, search |-> TRUE, created |-> 1]
    /\ srv = [server |-> TRUE, contentStore |-> 1, searchService |-> TRUE,
              unsubscribeContentStore |-> 1, storeReadyBroadcasted |-> FALSE,
              configWatcher |-> TRUE, stopping |-> FALSE]
    /\ sockets = <<>>
    /\ reqs = [r \in ReqIds |-> [pc |-> "idle", store |-> 0]]
    /\ startPc = "idle"
    /\ stopPc = "idle"
    /\ out = NoOut

\* the store invokes the server's callback with an event of the given type;
\* the sends to the failing sockets throw
StoreEvent(type) ==
    /\ srv.unsubscribeContentStore # 0
    /\ cSeen < MaxEvents
    /\ \E failing \in SUBSET OpenSockets :
        FanOut(srv.unsubscribeContentStore, "event", <<type>>, 0, {}, failing)
    /\ cSeen' = cSeen + 1
    /\ UNCHANGED <<stores, core, sockets, reqs, startPc, stopPc, disk, switchPc, notSX>>

SubscriptionNext ==
    \/ \E type \in {"ready", "task", "document", "decision"} : StoreEvent(type)
    \/ \E ws \in SocketIds : SocketOpen(ws) \/ SocketClose(ws)

SpecSubscription == SubscriptionInit /\ [][SubscriptionNext]_vars

\* C19: of the events a subscription receives only a "ready" that is its
\* very first event is swallowed (no send at all); every other event, a
\* later "ready" included, has tasks-updated sent exactly once to each socket
\* the server holds, and it arrives at every socket whose send does not throw.
C19_FirstReadySwallowed ==
    out.op = "event" =>
        IF out.events = <<"ready">> /\ cSeen = 1
        THEN out.broadcasts = 0 /\ out.attempted = <<>> /\ out.delivered = <<>>
        ELSE /\ out.broadcasts = 1
             /\ out.attempted = sockets
             /\ \A i, j \in 1..Len(out.attempted) :
                    out.attempted[i] = out.attempted[j] => i = j
             /\ {out.delivered[i] : i \in 1..Len(out.delivered)} = OpenSockets \ out.failed

\* with two sockets connected the first event, a "ready", was swallowed
C19_Witness ==
    /\ out.op = "event"
    /\ out.events = <<"ready">>
    /\ cSeen = 1
    /\ Len(sockets) = 2
    /\ out.broadcasts = 0

(***************************************************************************)
(* BacklogServer.switchProject, with requests in flight                    *)
(***************************************************************************)
\* switchProject up to its first await: the subscription and the services of
\* the old core are dropped, this.core is a new Core of the other project
SwitchBegin ==
    /\ switchPc = "idle"
    /\ srv.server
    /\ stores' = [id \in StoreIds |->
          IF id = core.store
          THEN dispose(IF id = srv.unsubscribeContentStore THEN unsubscribe(stores[id], "server")
                       ELSE stores[id])
          ELSE IF id = srv.unsubscribeContentStore THEN unsubscribe(stores[id], "server")
          ELSE stores[id]]
    /\ core' = [core EXCEPT !.store = 0, !.search = FALSE]
    /\ srv' = [srv EXCEPT !.unsubscribeContentStore = 0, !.configWatcher = FALSE,
                          !.contentStore = 0, !.searchService = FALSE,
                          !.storeReadyBroadcasted = FALSE]
    /\ disk' \in [TaskKeys -> {NoEntry, [rev |-> 1, live |-> TRUE]}]
    /\ switchPc' = "awaitConfig"
    /\ out' = [NoOut EXCEPT !.op = "switchProject", !.store = core.store]
    /\ UNCHANGED <<sockets, reqs, startPc, stopPc, cSeen, notSX>>

\* switchProject after await loadConfig(): the config watcher is set up and
\* ensureServicesReady is called
SwitchConfigLoaded ==
    /\ switchPc = "awaitConfig"
    /\ reqs[0].pc = "idle"
    /\ srv' = [srv EXCEPT !.configWatcher = TRUE]
    /\ GetContentStore(0)
    /\ switchPc' = "awaitServices"
    /\ UNCHANGED <<sockets, startPc, stopPc, disk, cSeen, notSX>>

\* switchProject after await ensureServicesReady(): the clients are told to reload
SwitchEnd ==
    /\ switchPc = "awaitServices"
    /\ reqs[0].pc = "done"
    /\ reqs' = [reqs EXCEPT ![0] = [pc |-> "idle", store |-> 0]]
    /\ \E failing \in SUBSET OpenSockets :
        LET sent == broadcastTasksUpdated(sockets, failing)
        IN  out' = [NoOut EXCEPT !.op = "switched", !.store = core.store,
                                 !.broadcasts = 1, !.recipients = sockets,
                                 !.attempted = sent.attempted,
                                 !.delivered = sent.delivered,
                                 !.failed = OpenSockets \cap failing]
    /\ switchPc' = "done"
    /\ UNCHANGED <<stores, core, srv, sockets, startPc, stopPc, disk, cSeen, notSX>>

SwitchNext ==
    \/ SwitchBegin \/ SwitchConfigLoaded \/ SwitchEnd
    \/ \E r \in ReqIds : EnsureBegin(r) \/ EnsureResume(r) \/ EnsureFinish(r)
    \/ \E id \in StoreIds : HydrationDone(id)
    \/ \E ws \in SocketIds : SocketOpen(ws) \/ SocketClose(ws)

SpecSwitch == SubscriptionInit /\ [][SwitchNext]_vars

\* the stores the server's callback is subscribed to, once per subscription
ServerSubscriptions ==
    {<<id, i>> \in StoreIds \X (1..MaxReqs + 2) :
        i <= Len(stores[id].subscribers) /\ stores[id].subscribers[i] = "server"}

\* C20: once switchProject has completed, whatever requests were in flight
\* across it, the server holds exactly one store subscription, it is on the
\* store of the new core, and contentStore and searchService are the new
\* core's instances.
C20_SwitchedCleanly ==
    switchPc = "done" =>
        /\ core.store # 0
        /\ stores[core.store].state # "disposed"
        /\ srv.unsubscribeContentStore = core.store
        /\ ServerSubscriptions = {<<core.store, 1>>}
        /\ srv.contentStore = core.store
        /\ srv.searchService /\ core.search


(***************************************************************************)
(* GET /api/tasks/:id (handleGetTask): the store snapshot, then the loader *)
(***************************************************************************)
\* no task: what find and loadTask return when there is none
AbsentTask == [id |-> <<>>]

\* the handler answering 404 whenever the snapshot has no match
handleGetTask_noFallback(tasks, taskId, loadTask) ==
    LET found == findTaskByLooseId(tasks, taskId)
    IN  IF found = 0
        THEN [status |-> 404, body |-> AbsentTask, loaded |-> <<ensurePrefix(taskId)>>,
              upserted |-> <<>>]
        ELSE [status |-> 200, body |-> tasks[found], loaded |-> <<>>, upserted |-> <<>>]

\* handleGetTask on the snapshot tasks, loadTask being what the loader
\* returns for the fallback id: the response, the ids the loader was asked
\* for and the tasks upserted into the store
handleGetTask(tasks, taskId, loadTask) ==
    LET found == findTaskByLooseId(tasks, taskId)
        fallbackId == ensurePrefix(taskId)
    IN  IF found = 0
        THEN IF loadTask # AbsentTask
             THEN [status |-> 200, body |-> loadTask, loaded |-> <<fallbackId>>,
                   upserted |-> <<loadTask>>]
             ELSE [status |-> 404, body |-> AbsentTask, loaded |-> <<fallbackId>>,
                   upserted |-> <<>>]
        ELSE [status |-> 200, body |-> tasks[found], loaded |-> <<>>, upserted |-> <<>>]

\* store.upsertTask on the task list: the task replaces the one of its id
\* or is added
upsertInto(tasks, task) ==
    IF \E i \in 1..Len(tasks) : tasks[i].id = task.id
    THEN [i \in 1..Len(tasks) |-> IF tasks[i].id = task.id THEN task ELSE tasks[i]]
    ELSE Append(tasks, task)

NoGetTaskResponse == [status |-> 0, body |-> AbsentTask, loaded |-> <<>>, upserted |-> <<>>]

GetTaskInit ==
    /\ MilestoneIdle
    /\ LooseIdle
    /\ ReorderIdle
    /\ ServerIdle
    /\ SearchIdle
    /\ WebIdle
    /\ SwitchIdle
    /\ \E tasks \in ListsUpTo(Tasks, MaxTasks) :
          /\ DistinctIds(tasks)
          /\ hWorld = [tasks |-> tasks, upserts |-> <<>>]
    /\ \E taskId \in LooseInputs :
          hReqs = [pc |-> "awaitStore", taskId |-> taskId, snapshot |-> <<>>,
                   fallback |-> AbsentTask, response |-> NoGetTaskResponse]

\* the store instance is there: the handler takes the snapshot and looks the
\* id up; a match is answered at once, otherwise the loader is asked
GetTaskLookup ==
    /\ hReqs.pc = "awaitStore"
    /\ LET tasks == hWorld.tasks
       IN  IF findTaskByLooseId(tasks, hReqs.taskId) # 0
           THEN hReqs' = [hReqs EXCEPT !.pc = "done", !.snapshot = tasks,
                             !.response = handleGetTask(tasks, hReqs.taskId, AbsentTask)]
           ELSE hReqs' = [hReqs EXCEPT !.pc = "awaitLoad", !.snapshot = tasks]
    /\ UNCHANGED <<hWorld, notH>>

\* the loader answers with a task or with none; a task is upserted and sent
GetTaskLoaded ==
    /\ hReqs.pc = "awaitLoad"
    /\ \E loadTask \in Tasks \cup {AbsentTask} :
          LET response == handleGetTask(hReqs.snapshot, hReqs.taskId, loadTask)
          IN  /\ hReqs' = [hReqs EXCEPT !.pc = "done", !.fallback = loadTask,
                                         !.response = response]
              /\ hWorld' = [hWorld EXCEPT
                    !.upserts = @ \o response.upserted,
                    !.tasks = IF response.upserted = <<>> THEN @
                              ELSE upsertInto(@, response.upserted[1])]
    /\ UNCHANGED notH

\* while the request waits for the loader, the watcher takes a task out of
\* the store
GetTaskStoreRemoval ==
    /\ hReqs.pc = "awaitLoad"
    /\ \E i \in 1..Len(hWorld.tasks) :
          hWorld' = [hWorld EXCEPT !.tasks =
                        SubSeq(@, 1, i - 1) \o SubSeq(@, i + 1, Len(@))]
    /\ UNCHANGED <<hReqs, notH>>

GetTaskNext == GetTaskLookup \/ GetTaskLoaded \/ GetTaskStoreRemoval

SpecGetTask == GetTaskInit /\ [][GetTaskNext]_vars

\* C22: a 404 is answered only when the snapshot has no match for the id
\* and the loader, asked for ensurePrefix(id), has no task; ensurePrefix
\* leaves an id with a <letters>- prefix alone, so applying it twice is
\* applying it once; the store is upserted only when the snapshot has no
\* match, and only with the task the loader returned, which is the answer.
C22_NotFoundOnlyAfterFallback ==
    hReqs.pc = "done" =>
        LET response == hReqs.response
            found == findTaskByLooseId(hReqs.snapshot, hReqs.taskId)
        IN  /\ response.status \in {200, 404}
            /\ response.status = 404 =>
                  /\ found = 0
                  /\ response.loaded = <<ensurePrefix(hReqs.taskId)>>
                  /\ hReqs.fallback = AbsentTask
                  /\ response.upserted = <<>>
            /\ ensurePrefix(ensurePrefix(hReqs.taskId)) = ensurePrefix(hReqs.taskId)
            /\ PrefixLength(hReqs.taskId) > 0 => ensurePrefix(hReqs.taskId) = hReqs.taskId
            /\ PrefixLength(hReqs.taskId) = 0 =>
                  ensurePrefix(hReqs.taskId) = DEFAULT_PREFIX \o hReqs.taskId
            /\ hWorld.upserts = response.upserted
            /\ response.upserted # <<>> =>
                  /\ found = 0
                  /\ response.status = 200
                  /\ response.upserted = <<hReqs.fallback>>
                  /\ response.body = hReqs.fallback
                  /\ response.loaded = <<ensurePrefix(hReqs.taskId)>>
                  /\ \E i \in 1..Len(hWorld.tasks) : hWorld.tasks[i] = response.body
            /\ found # 0 => response.loaded = <<>>

\* the snapshot of two tasks has no match for a bare number, the loader is
\* asked for the prefixed id and has none: 404, and nothing is upserted
C22_Witness ==
    /\ hReqs.pc = "done"
    /\ Len(hReqs.snapshot) = 2
    /\ hReqs.taskId = <<"2">>
    /\ hReqs.response.loaded = <<<<"t", "a", "s", "k", "-", "2">>>>
    /\ hReqs.response.status = 404
    /\ hWorld.upserts = <<>>


(***************************************************************************)
(* POST /api/milestones (handleCreateMilestone): list, compare, create     *)
(***************************************************************************)
MaxCreateReqs == 2

MaxCreated == 3

\* buildAliasKeys of handleCreateMilestone
buildAliasKeys(value) ==
    LET normalized == ToLowerCase(Trim(value))
    IN  IF normalized = <<>> THEN {} ELSE {normalized} \cup NumericAliases(normalized)

\* existingMilestones.find(...): the first milestone sharing a key with the
\* requested title, 0 for none
duplicate(existingMilestones, title) ==
    FirstIndex({i \in 1..Len(existingMilestones) :
                   buildAliasKeys(title) \cap
                       (buildAliasKeys(existingMilestones[i].id) \cup
                        buildAliasKeys(existingMilestones[i].title)) # {}})

\* filesystem.createMilestone: a milestone file under the next free id
createMilestone(milestones, title) ==
    Append(milestones, [id |-> <<"m", "-">> \o NumToString(Len(milestones) + 1), title |-> title])

\* the titles a request body can carry
CreateTitles == {<<>>, <<" ">>, <<"r">>, <<"R", " ">>, <<"1">>, <<"m", "-", "1">>, <<"b">>}

CreateMilestoneInit ==
    /\ MilestoneIdle
    /\ LooseIdle
    /\ ReorderIdle
    /\ ServerIdle
    /\ SearchIdle
    /\ WebIdle
    /\ SwitchIdle
    /\ hWorld \in {[milestones |-> <<>>],
                   [milestones |-> <<[id |-> <<"m", "-", "1">>, title |-> <<"x">>]>>]}
    /\ hReqs = [r \in 1..MaxCreateReqs |->
                   [pc |-> "idle", title |-> <<>>, existingMilestones |-> <<>>, status |-> 0]]

\* a request arrives: its body is read and the title trimmed; no title is 400
CreateReceive(r) ==
    /\ hReqs[r].pc = "idle"
    /\ Len(hWorld.milestones) < MaxCreated
    /\ \E given \in CreateTitles :
          LET title == Trim(given)
          IN  hReqs' = [hReqs EXCEPT ![r] =
                           IF title = <<>>
                           THEN [pc |-> "done", title |-> title, existingMilestones |-> <<>>,
                                 status |-> 400]
                           ELSE [pc |-> "awaitList", title |-> title,
                                 existingMilestones |-> <<>>, status |-> 0]]
    /\ UNCHANGED <<hWorld, notH>>

\* listMilestones has answered: a duplicate is 400, otherwise the file is
\* being created
CreateListed(r) ==
    /\ hReqs[r].pc = "awaitList"
    /\ LET existingMilestones == hWorld.milestones
       IN  hReqs' = [hReqs EXCEPT ![r] =
                        IF duplicate(existingMilestones, hReqs[r].title) # 0
                        THEN [@ EXCEPT !.pc = "done", !.status = 400,
                                       !.existingMilestones = existingMilestones]
                        ELSE [@ EXCEPT !.pc = "awaitCreate",
                                       !.existingMilestones = existingMilestones]]
    /\ UNCHANGED <<hWorld, notH>>

\* createMilestone has written the file: 201
CreateCreated(r) ==
    /\ hReqs[r].pc = "awaitCreate"
    /\ hWorld' = [hWorld EXCEPT !.milestones = createMilestone(@, hReqs[r].title)]
    /\ hReqs' = [hReqs EXCEPT ![r].pc = "done", ![r].status = 201]
    /\ UNCHANGED notH

\* the response is sent
CreateAnswered(r) ==
    /\ hReqs[r].pc = "done"
    /\ hReqs' = [hReqs EXCEPT ![r] =
                    [pc |-> "idle", title |-> <<>>, existingMilestones |-> <<>>, status |-> 0]]
    /\ UNCHANGED <<hWorld, notH>>

CreateMilestoneNext ==
    \E r \in 1..MaxCreateReqs :
        CreateReceive(r) \/ CreateListed(r) \/ CreateCreated(r) \/ CreateAnswered(r)

SpecCreateMilestone == CreateMilestoneInit /\ [][CreateMilestoneNext]_vars

\* C24: a request whose title shares an alias key with the id or title of a
\* milestone listed for it is answered 400 and creates nothing, so whatever
\* the requests and however they overlap, no two active milestones have the
\* same title but for case.
C24_NoDuplicateTitles ==
    /\ \A r \in 1..MaxCreateReqs :
          (hReqs[r].pc \in {"awaitCreate", "done"} /\ hReqs[r].title # <<>>
              /\ duplicate(hReqs[r].existingMilestones, hReqs[r].title) # 0)
            => (hReqs[r].pc = "done" /\ hReqs[r].status = 400)
    /\ \A i, j \in 1..Len(hWorld.milestones) :
          i # j => ToLowerCase(hWorld.milestones[i].title) # ToLowerCase(hWorld.milestones[j].title)


(***************************************************************************)
(* CleanupModal (web component): age selection, preview, confirmation and  *)
(* execution.  wProps is the component state, wView the requests in flight *)
(* and the last executeCleanup call.                                       *)
(***************************************************************************)
\* two of the AGE_OPTION_KEYS values
CleanupAges == {7, 30}

\* preview.count of a preview response
PreviewCounts == {0, 2}

\* selectedAge 0 is null; error is whether a message is shown
CleanupState ==
    [selectedAge |-> 0, previewCount |-> 0, isLoadingPreview |-> FALSE,
     isExecuting |-> FALSE, error |-> FALSE, showConfirmation |-> FALSE]

\* preview, execute: the age of the request in flight, 0 for none;
\* loadedFor: the age selected last, once its preview has loaded with tasks;
\* confirmedFor: that age, once the user has continued;
\* call: the last executeCleanup call and the state it was made in
CleanupInFlight ==
    [preview |-> 0, execute |-> 0, loadedFor |-> 0, confirmedFor |-> 0,
     call |-> [age |-> 0, loading |-> FALSE, executing |-> FALSE, confirmed |-> FALSE]]

CleanupInit ==
    /\ MilestoneIdle
    /\ LooseIdle
    /\ ReorderIdle
    /\ ServerIdle
    /\ SearchIdle
    /\ SwitchIdle
    /\ HandlerIdle
    /\ wProps = CleanupState
    /\ wView = CleanupInFlight
    /\ wPc = "open"

\* handleClose: the state is reset and the dialog closed
handleClose(state) ==
    [state EXCEPT !.selectedAge = 0, !.previewCount = 0, !.error = FALSE,
                  !.showConfirmation = FALSE]

\* an age button, enabled unless loading or executing: handleAgeSelect up to
\* its await
CleanupAgeSelect ==
    /\ wPc = "open"
    /\ ~wProps.isLoadingPreview /\ ~wProps.isExecuting
    /\ \E age \in CleanupAges :
          /\ wProps' = [wProps EXCEPT !.selectedAge = age, !.error = FALSE,
                                      !.isLoadingPreview = TRUE]
          /\ wView' = [wView EXCEPT !.preview = age, !.loadedFor = 0, !.confirmedFor = 0]
    /\ UNCHANGED <<wPc, notW>>

\* getCleanupPreview answers: the rest of handleAgeSelect
CleanupPreviewLoaded ==
    /\ wView.preview # 0
    /\ \E count \in PreviewCounts :
          /\ wProps' = [wProps EXCEPT !.previewCount = count, !.showConfirmation = FALSE,
                                      !.isLoadingPreview = FALSE]
          /\ wView' = [wView EXCEPT
                          !.preview = 0,
                          !.loadedFor = IF count > 0 /\ wView.preview = wProps.selectedAge
                                        THEN wView.preview ELSE 0,
                          !.confirmedFor = 0]
    /\ UNCHANGED <<wPc, notW>>

\* getCleanupPreview throws
CleanupPreviewFailed ==
    /\ wView.preview # 0
    /\ wProps' = [wProps EXCEPT !.error = TRUE, !.previewCount = 0,
                                !.isLoadingPreview = FALSE]
    /\ wView' = [wView EXCEPT !.preview = 0, !.loadedFor = 0, !.confirmedFor = 0]
    /\ UNCHANGED <<wPc, notW>>

\* the Continue button: shown with an age, tasks and no confirmation yet,
\* enabled unless loading or executing
CleanupContinue ==
    /\ wPc = "open"
    /\ wProps.selectedAge # 0 /\ wProps.previewCount > 0 /\ ~wProps.showConfirmation
    /\ ~wProps.isLoadingPreview /\ ~wProps.isExecuting
    /\ wProps' = [wProps EXCEPT !.showConfirmation = TRUE]
    /\ wView' = [wView EXCEPT !.confirmedFor = wView.loadedFor]
    /\ UNCHANGED <<wPc, notW>>

\* the Move button: shown with an age, tasks and the confirmation, enabled
\* unless executing: handleExecuteCleanup up to its await
CleanupExecute ==
    /\ wPc = "open"
    /\ wProps.selectedAge # 0 /\ wProps.previewCount > 0 /\ wProps.showConfirmation
    /\ ~wProps.isExecuting
    /\ wView' = [wView EXCEPT
                    !.execute = wProps.selectedAge,
                    !.call = [age |-> wProps.selectedAge,
                              loading |-> wProps.isLoadingPreview,
                              executing |-> wView.execute # 0,
                              confirmed |-> wView.confirmedFor = wProps.selectedAge]]
    /\ wProps' = [wProps EXCEPT !.isExecuting = TRUE, !.error = FALSE]
    /\ UNCHANGED <<wPc, notW>>

\* executeCleanup answers with success, without it, or throws: the rest of
\* handleExecuteCleanup
CleanupExecuted ==
    /\ wView.execute # 0
    /\ \E success \in BOOLEAN :
          IF success
          THEN /\ wProps' = [handleClose(wProps) EXCEPT !.isExecuting = FALSE]
               /\ wView' = [wView EXCEPT !.execute = 0, !.loadedFor = 0, !.confirmedFor = 0]
               /\ wPc' = "closed"
          ELSE /\ wProps' = [wProps EXCEPT !.error = TRUE, !.isExecuting = FALSE]
               /\ wView' = [wView EXCEPT !.execute = 0]
               /\ wPc' = wPc
    /\ UNCHANGED notW

\* the Cancel button, enabled unless executing
CleanupClose ==
    /\ wPc = "open"
    /\ ~wProps.isExecuting
    /\ wProps' = handleClose(wProps)
    /\ wView' = [wView EXCEPT !.loadedFor = 0, !.confirmedFor = 0]
    /\ wPc' = "closed"
    /\ UNCHANGED notW

\* the dialog is opened again
CleanupOpen ==
    /\ wPc = "closed"
    /\ wPc' = "open"
    /\ UNCHANGED <<wProps, wView, notW>>

CleanupNext ==
    \/ CleanupAgeSelect \/ CleanupPreviewLoaded \/ CleanupPreviewFailed
    \/ CleanupContinue \/ CleanupExecute \/ CleanupExecuted
    \/ CleanupClose \/ CleanupOpen

SpecCleanup == CleanupInit /\ [][CleanupNext]_vars

\* C25: executeCleanup is only called with an age whose preview, since the
\* age was selected, has loaded with count > 0 and has then been confirmed,
\* and never while a preview is loading or an execution is in flight.
C25_ExecuteOnlyConfirmed ==
    wView.call.age # 0 =>
        /\ wView.call.confirmed
        /\ ~wView.call.loading
        /\ ~wView.call.executing


(***************************************************************************)
(* TaskList (Navigation.tsx): the filter effects and the search requests   *)
(* they leave in flight.  wProps is the component state, wView the         *)
(* requests in flight, each with the cancelled flag of its effect run, and *)
(* the response that arrived last.                                         *)
(***************************************************************************)
MaxInFlight == 3

\* the filter states: none, two that need the search API (a status, a
\* query) and one with the milestone only, which is applied locally
FilterStates == {"", "status", "query", "milestone"}

shouldUseApi(filter) == filter \in {"status", "query"}

hasActiveFilters(filter) == filter # ""

\* what is displayed: sortedBaseTasks, the tasks of a response or of the
\* local milestone filter, or nothing
AllTasks == [kind |-> "all", filter |-> ""]

\* the response that arrived last: the filter state it was requested for,
\* the cancelled flag of its effect run, the filter state it arrived in and
\* whether its arrival changed what is shown
NoArrival ==
    [made |-> FALSE, filter |-> "", cancelled |-> FALSE, ok |-> FALSE, current |-> "",
     changed |-> FALSE]

\* the part of fetchFilteredTasks after the await, applied whatever the
\* cancelled flag says
afterSearch_uncancelled(state, request, ok) ==
    IF ok THEN [state EXCEPT !.displayTasks = [kind |-> "results", filter |-> request.filter]]
    ELSE [state EXCEPT !.displayTasks = [kind |-> "empty", filter |-> request.filter],
                       !.error = TRUE]

\* the part of fetchFilteredTasks after the await: the results or the
\* failure of a request are applied unless its effect run was cleaned up
afterSearch(state, request, ok) ==
    IF request.cancelled THEN state
    ELSE IF ok
    THEN [state EXCEPT !.displayTasks = [kind |-> "results", filter |-> request.filter]]
    ELSE [state EXCEPT !.displayTasks = [kind |-> "empty", filter |-> request.filter],
                       !.error = TRUE]

\* the two effects after a render with a new filter state
filterEffects(state, filter) ==
    IF ~hasActiveFilters(filter)
    THEN [state EXCEPT !.filter = filter, !.displayTasks = AllTasks, !.error = FALSE]
    ELSE IF ~shouldUseApi(filter)
    THEN [state EXCEPT !.filter = filter, !.error = FALSE,
                       !.displayTasks = [kind |-> "local", filter |-> filter]]
    ELSE [state EXCEPT !.filter = filter, !.error = FALSE]

TaskFilterInit ==
    /\ MilestoneIdle
    /\ LooseIdle
    /\ ReorderIdle
    /\ ServerIdle
    /\ SearchIdle
    /\ SwitchIdle
    /\ HandlerIdle
    /\ wProps = [filter |-> "", displayTasks |-> AllTasks, error |-> FALSE]
    /\ wView = [inFlight |-> <<>>, arrived |-> NoArrival]
    /\ wPc = "mounted"

\* the user changes a filter (or clears them): the cleanup of the last
\* effect run sets its cancelled flag, the effects run for the new state and
\* a filter that needs the API sends a search request
FilterChange ==
    /\ \E filter \in FilterStates \ {wProps.filter} :
          /\ shouldUseApi(filter) => Len(wView.inFlight) < MaxInFlight
          /\ wProps' = filterEffects(wProps, filter)
          /\ wView' = [wView EXCEPT !.inFlight =
                          [i \in 1..Len(@) |-> [@[i] EXCEPT !.cancelled = TRUE]] \o
                          (IF shouldUseApi(filter)
                           THEN <<[filter |-> filter, cancelled |-> FALSE]>> ELSE <<>>)]
    /\ UNCHANGED <<wPc, notW>>

\* apiClient.search of one of the requests in flight resolves or rejects
SearchSettled ==
    /\ \E i \in 1..Len(wView.inFlight), ok \in BOOLEAN :
          LET request == wView.inFlight[i]
          IN  /\ wProps' = afterSearch(wProps, request, ok)
              /\ wView' = [inFlight |-> SubSeq(wView.inFlight, 1, i - 1) \o
                                        SubSeq(wView.inFlight, i + 1, Len(wView.inFlight)),
                           arrived |-> [made |-> TRUE, filter |-> request.filter,
                                        cancelled |-> request.cancelled, ok |-> ok,
                                        current |-> wProps.filter,
                                        changed |-> afterSearch(wProps, request, ok) # wProps]]
    /\ UNCHANGED <<wPc, notW>>

TaskFilterNext == FilterChange \/ SearchSettled

SpecTaskFilter == TaskFilterInit /\ [][TaskFilterNext]_vars

\* the request of the current filter state is still in flight
CurrentInFlight == \E i \in 1..Len(wView.inFlight) : ~wView.inFlight[i].cancelled

WizardSteps ==
    {"projectName", "integrationMode", "mcpClients", "agentFiles", "advancedConfig", "summary"}

\* what the project name field can hold: nothing, a blank, a name
WizardNames == {<<>>, <<" ">>, <<"p">>, <<" ", "p">>}

\* integrationMode null is ""
WizardModes == {"mcp", "cli", "none"}

\* handleNext going on from the first step whatever the name
handleNext_anyName(state) ==
    IF state.currentStep = "projectName"
    THEN [state EXCEPT !.error = FALSE, !.currentStep = "integrationMode"]
    ELSE IF state.currentStep = "integrationMode"
    THEN IF state.integrationMode = "" THEN [state EXCEPT !.error = TRUE]
         ELSE [state EXCEPT !.error = FALSE,
                  !.currentStep = IF state.integrationMode = "mcp" THEN "mcpClients"
                                  ELSE IF state.integrationMode = "cli" THEN "agentFiles"
                                  ELSE "advancedConfig"]
    ELSE IF state.currentStep \in {"mcpClients", "agentFiles"}
    THEN [state EXCEPT !.error = FALSE, !.currentStep = "advancedConfig"]
    ELSE IF state.currentStep = "advancedConfig"
    THEN [state EXCEPT !.error = FALSE, !.currentStep = "summary"]
    ELSE [state EXCEPT !.error = FALSE]

handleNext(state) ==
    IF state.currentStep = "projectName"
    THEN IF Trim(state.projectName) = <<>> THEN [state EXCEPT !.error = TRUE]
         ELSE [state EXCEPT !.error = FALSE, !.currentStep = "integrationMode"]
    ELSE IF state.currentStep = "integrationMode"
    THEN IF state.integrationMode = "" THEN [state EXCEPT !.error = TRUE]
         ELSE [state EXCEPT !.error = FALSE,
                  !.currentStep = IF state.integrationMode = "mcp" THEN "mcpClients"
                                  ELSE IF state.integrationMode = "cli" THEN "agentFiles"
                                  ELSE "advancedConfig"]
    ELSE IF state.currentStep \in {"mcpClients", "agentFiles"}
    THEN [state EXCEPT !.error = FALSE, !.currentStep = "advancedConfig"]
    ELSE IF state.currentStep = "advancedConfig"
    THEN [state EXCEPT !.error = FALSE, !.currentStep = "summary"]
    ELSE [state EXCEPT !.error = FALSE]

handleBack(state) ==
    [state EXCEPT
        !.error = FALSE,
        !.currentStep =
            IF @ = "integrationMode" THEN "projectName"
            ELSE IF @ \in {"mcpClients", "agentFiles"} THEN "integrationMode"
            ELSE IF @ = "advancedConfig"
            THEN IF state.integrationMode = "mcp" THEN "mcpClients"
                 ELSE IF state.integrationMode = "cli" THEN "agentFiles"
                 ELSE "integrationMode"
            ELSE IF @ = "summary" THEN "advancedConfig"
            ELSE @]

WizardInit ==
    /\ MilestoneIdle
    /\ LooseIdle
    /\ ReorderIdle
    /\ ServerIdle
    /\ SearchIdle
    /\ SwitchIdle
    /\ HandlerIdle
    /\ wProps = [currentStep |-> "projectName", projectName |-> <<>>, integrationMode |-> "",
                 error |-> FALSE]
    /\ wView = [ledFrom |-> [step \in WizardSteps |-> ""],
                back |-> [made |-> FALSE, from |-> "", to |-> "", expected |-> ""]]
    /\ wPc = "wizard"

\* the name field, shown on the first step only
WizardTypeName ==
    /\ wProps.currentStep = "projectName"
    /\ \E name \in WizardNames \ {wProps.projectName} :
          wProps' = [wProps EXCEPT !.projectName = name]
    /\ UNCHANGED <<wView, wPc, notW>>

\* the radio buttons, shown on the integration step only
WizardChooseMode ==
    /\ wProps.currentStep = "integrationMode"
    /\ \E mode \in WizardModes \ {wProps.integrationMode} :
          wProps' = [wProps EXCEPT !.integrationMode = mode]
    /\ UNCHANGED <<wView, wPc, notW>>

\* the Next button, there on every step but the summary
WizardNext ==
    /\ wProps.currentStep # "summary"
    /\ wProps' = handleNext(wProps)
    /\ wView' = IF wProps'.currentStep # wProps.currentStep
                THEN [wView EXCEPT !.ledFrom[wProps'.currentStep] = wProps.currentStep]
                ELSE wView
    /\ UNCHANGED <<wPc, notW>>

\* the Back button, disabled on the first step
WizardBack ==
    /\ wProps.currentStep # "projectName"
    /\ wProps' = handleBack(wProps)
    /\ wView' = [wView EXCEPT !.back = [made |-> TRUE, from |-> wProps.currentStep,
                                        to |-> wProps'.currentStep,
                                        expected |-> wView.ledFrom[wProps.currentStep]]]
    /\ UNCHANGED <<wPc, notW>>

WizardNextStep == WizardTypeName \/ WizardChooseMode \/ WizardNext \/ WizardBack

SpecWizard == WizardInit /\ [][WizardNextStep]_vars

\* C27: past the first step the project name is not blank; the MCP client
\* step is only shown in mcp mode and the agent file step only in cli mode;
\* the advanced and summary steps only with a mode chosen; and Back leads
\* to the step from which Next led to the step it was pressed on.
C27_WizardSteps ==
    /\ wProps.currentStep # "projectName" => Trim(wProps.projectName) # <<>>
    /\ wProps.currentStep = "mcpClients" => wProps.integrationMode = "mcp"
    /\ wProps.currentStep = "agentFiles" => wProps.integrationMode = "cli"
    /\ wProps.currentStep \in {"advancedConfig", "summary"} =>
          wProps.integrationMode \in WizardModes
    /\ wView.back.made => wView.back.to = wView.back.expected

\* the advanced step was reached through the agent file step after an
\* earlier pass through the MCP step, and Back has led to the agent files
C27_Witness ==
    /\ wProps.currentStep = "agentFiles"
    /\ wView.back = [made |-> TRUE, from |-> "advancedConfig", to |-> "agentFiles",
                     expected |-> "agentFiles"]
    /\ wView.ledFrom["mcpClients"] = "integrationMode"
    /\ wProps.projectName = <<" ", "p">>


(***************************************************************************)
(* POST /api/tasks/cleanup/execute (handleCleanupExecute)                  *)
(***************************************************************************)
MaxCleanupTasks == 3

\* the ids getDoneTasksByAge can return
CleanupTaskIds == {"task-1", "task-2", "task-3"}

\* the age of a request body: absent, or a value Number.parseInt is given
CleanupAgeInputs ==
    {[given |-> FALSE, value |-> <<>>], [given |-> TRUE, value |-> <<"x">>],
     [given |-> TRUE, value |-> <<"-", "1">>], [given |-> TRUE, value |-> <<"0">>],
     [given |-> TRUE, value |-> <<"7">>]}

NoCleanupResponse ==
    [status |-> 0, success |-> FALSE, movedCount |-> 0, totalCount |-> 0 - 1, failedTasks |-> <<>>]

\* one turn of the loop counting a completeTask that throws as done
completeOne_throwIgnored(progress, taskId, outcome) ==
    [successCount |-> progress.successCount + (IF outcome = "true" THEN 1 ELSE 0),
     failedTasks |-> IF outcome = "false" THEN Append(progress.failedTasks, taskId)
                     ELSE progress.failedTasks]

\* one turn of the loop over tasksToCleanup, outcome being what
\* completeTask(task.id) did: returned true or false, or threw
completeOne(progress, taskId, outcome) ==
    [successCount |-> progress.successCount + (IF outcome = "true" THEN 1 ELSE 0),
     failedTasks |-> IF outcome = "true" THEN progress.failedTasks
                     ELSE Append(progress.failedTasks, taskId)]

CleanupExecuteInit ==
    /\ MilestoneIdle
    /\ LooseIdle
    /\ ReorderIdle
    /\ ServerIdle
    /\ SearchIdle
    /\ WebIdle
    /\ SwitchIdle
    /\ hWorld = [completed |-> <<>>, outcomes |-> <<>>, broadcasts |-> 0]
    /\ hReqs = [pc |-> "idle", tasksToCleanup |-> <<>>,
                progress |-> [successCount |-> 0, failedTasks |-> <<>>],
                response |-> NoCleanupResponse]

\* the body is read: a missing or invalid age is 400, otherwise the tasks
\* are asked for
ExecuteReceive ==
    /\ hReqs.pc = "idle"
    /\ \E age \in CleanupAgeInputs :
          LET ageInDays == NumberParseInt(age.value)
          IN  hReqs' = IF ~age.given \/ ageInDays.nan \/ ageInDays.value < 0
                       THEN [hReqs EXCEPT !.pc = "done", !.response.status = 400]
                       ELSE [hReqs EXCEPT !.pc = "awaitTasks"]
    /\ UNCHANGED <<hWorld, notH>>

\* getDoneTasksByAge answers with the tasks to clean up, or throws; no task
\* is answered at once
ExecuteListed ==
    /\ hReqs.pc = "awaitTasks"
    /\ \/ hReqs' = [hReqs EXCEPT !.pc = "done", !.response.status = 500]
       \/ \E tasksToCleanup \in ListsUpTo(CleanupTaskIds, MaxCleanupTasks) :
             /\ \A i, j \in 1..Len(tasksToCleanup) :
                   i # j => tasksToCleanup[i] # tasksToCleanup[j]
             /\ hReqs' = IF Len(tasksToCleanup) = 0
                         THEN [hReqs EXCEPT !.pc = "done",
                                  !.response = [NoCleanupResponse EXCEPT
                                                   !.status = 200, !.success = TRUE]]
                         ELSE [hReqs EXCEPT !.pc = "awaitComplete",
                                            !.tasksToCleanup = tasksToCleanup]
    /\ UNCHANGED <<hWorld, notH>>

\* completeTask of the next task has returned or thrown; after the last one
\* the sockets are told and the counts answered
ExecuteCompleted ==
    /\ hReqs.pc = "awaitComplete"
    /\ \E outcome \in {"true", "false", "throws"} :
          LET taskId == hReqs.tasksToCleanup[Len(hWorld.completed) + 1]
              progress == completeOne(hReqs.progress, taskId, outcome)
              last == Len(hWorld.completed) + 1 = Len(hReqs.tasksToCleanup)
          IN  /\ hWorld' = [completed |-> Append(hWorld.completed, taskId),
                            outcomes |-> Append(hWorld.outcomes, outcome),
                            broadcasts |-> hWorld.broadcasts + (IF last THEN 1 ELSE 0)]
              /\ hReqs' = IF last
                          THEN [hReqs EXCEPT
                                   !.pc = "done", !.progress = progress,
                                   !.response = [status |-> 200, success |-> TRUE,
                                                 movedCount |-> progress.successCount,
                                                 totalCount |-> Len(hReqs.tasksToCleanup),
                                                 failedTasks |-> progress.failedTasks]]
                          ELSE [hReqs EXCEPT !.progress = progress]
    /\ UNCHANGED notH

CleanupExecuteNext == ExecuteReceive \/ ExecuteListed \/ ExecuteCompleted

SpecCleanupExecute == CleanupExecuteInit /\ [][CleanupExecuteNext]_vars

MaxStarts == 3

\* the ports start() can be called with; the first is the default
StartPorts == {6420, 6421}

StartInit ==
    /\ MilestoneIdle
    /\ LooseIdle
    /\ ReorderIdle
    /\ ServerIdle
    /\ SearchIdle
    /\ WebIdle
    /\ SwitchIdle
    /\ hWorld = [server |-> 0, configWatcher |-> 0, watchers |-> {}, servers |-> {},
                 exited |-> FALSE, ignored |-> {}]
    /\ hReqs = [r \in 1..MaxStarts |-> [pc |-> "idle", finalPort |-> 0]]

\* start() is called: with this.server set it returns at once, otherwise it
\* awaits loadConfig
StartCalled(r) ==
    /\ ~hWorld.exited
    /\ hReqs[r].pc = "idle"
    /\ \A earlier \in 1..(r - 1) : hReqs[earlier].pc # "idle"
    /\ IF hWorld.server # 0
       THEN /\ hReqs' = [hReqs EXCEPT ![r].pc = "returned"]
            /\ hWorld' = [hWorld EXCEPT !.ignored = @ \cup {r}]
       ELSE /\ \E port \in StartPorts :
                  hReqs' = [hReqs EXCEPT ![r] = [pc |-> "awaitConfig", finalPort |-> port]]
            /\ hWorld' = hWorld
    /\ UNCHANGED notH

\* the config is loaded: watchConfig creates a watcher, kept in
\* this.configWatcher, and ensureServicesReady is awaited
StartWatching(r) ==
    /\ ~hWorld.exited
    /\ hReqs[r].pc = "awaitConfig"
    /\ hWorld' = [hWorld EXCEPT !.configWatcher = r, !.watchers = @ \cup {r}]
    /\ hReqs' = [hReqs EXCEPT ![r].pc = "awaitServices"]
    /\ UNCHANGED notH

\* the services are ready: Bun.serve listens on the port and the server is
\* kept in this.server, or throws for a port in use and the process exits
StartServing(r) ==
    /\ ~hWorld.exited
    /\ hReqs[r].pc = "awaitServices"
    /\ IF \E other \in hWorld.servers : hReqs[other].finalPort = hReqs[r].finalPort
       THEN /\ hWorld' = [hWorld EXCEPT !.exited = TRUE]
            /\ hReqs' = [hReqs EXCEPT ![r].pc = "failed"]
       ELSE /\ hWorld' = [hWorld EXCEPT !.server = r, !.servers = @ \cup {r}]
            /\ hReqs' = [hReqs EXCEPT ![r].pc = "returned"]
    /\ UNCHANGED notH

StartNext == \E r \in 1..MaxStarts : StartCalled(r) \/ StartWatching(r) \/ StartServing(r)

SpecStart == StartInit /\ [][StartNext]_vars

\* C29: a BacklogServer never has more than one HTTP server nor more than
\* one active config watcher, whether start() is called again while the
\* server runs or while an earlier start() is still in progress; a start()
\* that finds the server running creates neither.
C29_SingleStart ==
    /\ Cardinality(hWorld.servers) <= 1
    /\ Cardinality(hWorld.watchers) <= 1
    /\ hWorld.ignored \cap (hWorld.servers \cup hWorld.watchers) = {}


(***************************************************************************)
(* POST /api/init (handleInit): name check, config check, initialization   *)
(***************************************************************************)
MaxInitReqs == 2

\* body.projectName: not a string ("" after the typeof test), blank, names
InitNames == {<<>>, <<" ">>, <<"p">>, <<" ", "q">>}

\* loadConfig() of a project without configuration
NoConfig == <<>>

NoInitReq == [pc |-> "idle", projectName |-> <<>>, status |-> 0, changed |-> FALSE]

\* config: the project name of the configuration file, NoConfig without one;
\* projectName: this.projectName; contentStore: whether this.contentStore is
\* set; watching: whether its config watcher runs; calls: the
\* initializeProject calls made
InitInit ==
    /\ MilestoneIdle
    /\ LooseIdle
    /\ ReorderIdle
    /\ ServerIdle
    /\ SearchIdle
    /\ WebIdle
    /\ SwitchIdle
    /\ \E config \in {NoConfig, <<"x">>}, contentStore \in BOOLEAN :
          hWorld = [config |-> config,
                    projectName |-> IF config = NoConfig THEN <<"U">> ELSE config,
                    contentStore |-> contentStore,
                    watching |-> contentStore /\ config # NoConfig,
                    calls |-> 0]
    /\ hReqs = [r \in 1..MaxInitReqs |-> NoInitReq]

\* the body is read and the name trimmed: a blank name is 400, otherwise
\* loadConfig is awaited
InitReceive(r) ==
    /\ hReqs[r].pc = "idle"
    /\ \E given \in InitNames :
          LET projectName == Trim(given)
          IN  hReqs' = [hReqs EXCEPT ![r] =
                           IF projectName = <<>>
                           THEN [@ EXCEPT !.pc = "done", !.status = 400]
                           ELSE [@ EXCEPT !.pc = "awaitConfig", !.projectName = projectName]]
    /\ UNCHANGED <<hWorld, notH>>

\* loadConfig has answered: an existing configuration is 400, otherwise
\* initializeProject is called and awaited
InitConfigLoaded(r) ==
    /\ hReqs[r].pc = "awaitConfig"
    /\ IF hWorld.config # NoConfig
       THEN /\ hReqs' = [hReqs EXCEPT ![r].pc = "done", ![r].status = 400]
            /\ hWorld' = hWorld
       ELSE /\ hReqs' = [hReqs EXCEPT ![r].pc = "awaitInit"]
            /\ hWorld' = [hWorld EXCEPT !.calls = @ + 1]
    /\ UNCHANGED notH

\* initializeProject has written the configuration: the server takes the
\* name, the content store starts its config watcher, 200; or it threw: 500
InitInitialized(r) ==
    /\ hReqs[r].pc = "awaitInit"
    /\ \/ /\ hWorld' = [hWorld EXCEPT !.config = hReqs[r].projectName,
                                      !.projectName = hReqs[r].projectName,
                                      !.watching = hWorld.contentStore]
          /\ hReqs' = [hReqs EXCEPT ![r].pc = "done", ![r].status = 200, ![r].changed = TRUE]
       \/ /\ hWorld' = hWorld
          /\ hReqs' = [hReqs EXCEPT ![r].pc = "done", ![r].status = 500]
    /\ UNCHANGED notH

InitNext == \E r \in 1..MaxInitReqs : InitReceive(r) \/ InitConfigLoaded(r) \/ InitInitialized(r)

SpecInit == InitInit /\ [][InitNext]_vars

\* C30: initializeProject is called at most once for a project, overlapping
\* requests included, and never for a project that had a configuration; a
\* request answered 400 has changed neither the project name nor the
\* watcher; after a successful init the content store, if there is one,
\* watches the configuration.
C30_InitializedOnce ==
    /\ hWorld.calls <= 1
    /\ \A r \in 1..MaxInitReqs :
          /\ hReqs[r].status = 400 => ~hReqs[r].changed
          /\ (hReqs[r].status = 200 /\ hWorld.contentStore) => hWorld.watching

====
